---- MODULE Spec2Model ----
(***************************************************************************)
(* A model of DexedTweaks/dexed.py: the parameter records (Oscillator,     *)
(* Voice, Function), the Cart of 32 voices with its 32-voice dump codec    *)
(* and file format, and the SysEx messages handed to the MIDI transport.   *)
(*                                                                         *)
(* Python lists and bytes objects are TLA+ sequences; At(s, i) reads the   *)
(* 0-based index i of the source, Slice(s, a, b) is the slice s[a:b].      *)
(***************************************************************************)
EXTENDS Integers, Sequences, FiniteSets, TLC

(***************************************************************************)
(* Python primitives                                                       *)
(***************************************************************************)
Min(a, b) == IF a < b THEN a ELSE b

Abs(x) == IF x < 0 THEN -x ELSE x

\* s[i] for 0 <= i < len(s)
At(s, i) == s[i + 1]

\* s[a:b] for 0 <= a; the slice stops at the end of s, as Python's does
Slice(s, a, b) == SubSeq(s, a + 1, Min(b, Len(s)))

\* s[a:]
SliceFrom(s, a) == SubSeq(s, a + 1, Len(s))

RECURSIVE AndNat(_, _)
AndNat(a, b) ==
    IF a = 0 \/ b = 0 THEN 0
    ELSE (a % 2) * (b % 2) + 2 * AndNat(a \div 2, b \div 2)

\* a & b for a mask 0 <= b <= 0xFF; a negative a is in two's complement
BitAnd(a, b) == AndNat(a % 256, b)

RECURSIVE Pow2(_)
Pow2(n) == IF n = 0 THEN 1 ELSE 2 * Pow2(n - 1)

\* a << n
ShiftLeft(a, n) == a * Pow2(n)

\* a >> n
ShiftRight(a, n) == a \div Pow2(n)

\* s[lo] + ... + s[hi] (1-based), by halves
RECURSIVE SumRange(_, _, _)
SumRange(s, lo, hi) ==
    IF lo > hi THEN 0
    ELSE IF lo = hi THEN s[lo]
    ELSE LET mid == (lo + hi) \div 2
         IN SumRange(s, lo, mid) + SumRange(s, mid + 1, hi)

\* sum(s)
Sum(s) == SumRange(s, 1, Len(s))

\* [v for _ in range(n)]
Repeat(v, n) == [k \in 1..n |-> v]

(***************************************************************************)
(* Cart: the 32-voice dump codec                                           *)
(***************************************************************************)
\* the cart's voice count, range(32)
NumVoices == 32

\* bytes of one unpacked voice: 6 oscillators of 21 and 29 voice bytes
UnpackedVoiceSize == 155

\* bytes of one packed voice: 6 oscillators of 17 and 26 voice bytes
PackedVoiceSize == 128

\* the packing of an oscillator with Detune in the low bits of byte 12
PackOscillatorDetuneLow(oscillator_data) ==
    Slice(oscillator_data, 0, 11) \o
    << BitAnd(At(oscillator_data, 11), 3)
         + ShiftLeft(BitAnd(At(oscillator_data, 12), 3), 2),
       BitAnd(At(oscillator_data, 20), 15)
         + ShiftLeft(BitAnd(At(oscillator_data, 13), 7), 4),
       BitAnd(At(oscillator_data, 14), 3)
         + ShiftLeft(BitAnd(At(oscillator_data, 15), 7), 2),
       At(oscillator_data, 16),
       BitAnd(At(oscillator_data, 17), 1)
         + ShiftLeft(BitAnd(At(oscillator_data, 18), 31), 1),
       At(oscillator_data, 19) >>

\* one pass of the inner loop of _convert_to_32_voice_dump_format:
\* oscillator_data (21 bytes) to temp_data[:17]
PackOscillator(oscillator_data) ==
    Slice(oscillator_data, 0, 11) \o
    << BitAnd(At(oscillator_data, 11), 3)
         + ShiftLeft(BitAnd(At(oscillator_data, 12), 3), 2),
       BitAnd(At(oscillator_data, 13), 7)
         + ShiftLeft(BitAnd(At(oscillator_data, 20), 15), 3),
       BitAnd(At(oscillator_data, 14), 3)
         + ShiftLeft(BitAnd(At(oscillator_data, 15), 7), 2),
       At(oscillator_data, 16),
       BitAnd(At(oscillator_data, 17), 1)
         + ShiftLeft(BitAnd(At(oscillator_data, 18), 31), 1),
       At(oscillator_data, 19) >>

\* the bit width the packer keeps of Pitch_Mod_Sensitivity (mask 0b11)
PackVoiceParams(voice_param_data) ==
    Slice(voice_param_data, 0, 8) \o
    << BitAnd(At(voice_param_data, 8), 31),
       BitAnd(At(voice_param_data, 9), 7)
         + ShiftLeft(BitAnd(At(voice_param_data, 10), 1), 3) >> \o
    Slice(voice_param_data, 11, 15) \o
    << BitAnd(At(voice_param_data, 15), 1)
         + ShiftLeft(BitAnd(At(voice_param_data, 16), 15), 1)
         + ShiftLeft(BitAnd(At(voice_param_data, 17), 3), 5) >> \o
    SliceFrom(voice_param_data, 18)

\* the 128 packed bytes of voice i
PackVoiceBlock(voice_data) ==
    PackOscillator(Slice(voice_data, 0, 21)) \o
    PackOscillator(Slice(voice_data, 21, 42)) \o
    PackOscillator(Slice(voice_data, 42, 63)) \o
    PackOscillator(Slice(voice_data, 63, 84)) \o
    PackOscillator(Slice(voice_data, 84, 105)) \o
    PackOscillator(Slice(voice_data, 105, 126)) \o
    PackVoiceParams(Slice(voice_data, 126, 155))

\* the passes i, i + 1, ..., 31 of the outer loop: new_data[i*128:]
RECURSIVE PackVoices(_, _)
PackVoices(data, i) ==
    IF i = NumVoices THEN <<>>
    ELSE PackVoiceBlock(Slice(data, i * UnpackedVoiceSize,
                              (i + 1) * UnpackedVoiceSize))
         \o PackVoices(data, i + 1)

_convert_to_32_voice_dump_format(data) == PackVoices(data, 0)

\* a decoder that keeps three bits of Detune where UnpackOscillator keeps four
UnpackOscillatorNarrowDetune(oscillator_data) ==
    Slice(oscillator_data, 0, 11) \o
    << BitAnd(At(oscillator_data, 11), 3),
       ShiftRight(BitAnd(At(oscillator_data, 11), 12), 2),
       BitAnd(At(oscillator_data, 12), 7),
       BitAnd(At(oscillator_data, 13), 3),
       ShiftRight(BitAnd(At(oscillator_data, 13), 28), 2),
       At(oscillator_data, 14),
       BitAnd(At(oscillator_data, 15), 1),
       ShiftRight(BitAnd(At(oscillator_data, 15), 62), 1),
       At(oscillator_data, 16),
       ShiftRight(BitAnd(At(oscillator_data, 12), 56), 3) >>

\* one pass of the inner loop of _convert_from_32_voice_dump_format:
\* oscillator_data (17 bytes) to temp_data[:21]
UnpackOscillator(oscillator_data) ==
    Slice(oscillator_data, 0, 11) \o
    << BitAnd(At(oscillator_data, 11), 3),
       ShiftRight(BitAnd(At(oscillator_data, 11), 12), 2),
       BitAnd(At(oscillator_data, 12), 7),
       BitAnd(At(oscillator_data, 13), 3),
       ShiftRight(BitAnd(At(oscillator_data, 13), 28), 2),
       At(oscillator_data, 14),
       BitAnd(At(oscillator_data, 15), 1),
       ShiftRight(BitAnd(At(oscillator_data, 15), 62), 1),
       At(oscillator_data, 16),
       ShiftRight(BitAnd(At(oscillator_data, 12), 120), 3) >>

UnpackVoiceParams(voice_param_data) ==
    Slice(voice_param_data, 0, 8) \o
    << BitAnd(At(voice_param_data, 8), 31),
       BitAnd(At(voice_param_data, 9), 7),
       ShiftRight(BitAnd(At(voice_param_data, 9), 8), 3) >> \o
    Slice(voice_param_data, 10, 14) \o
    << BitAnd(At(voice_param_data, 14), 1),
       ShiftRight(BitAnd(At(voice_param_data, 14), 30), 1),
       ShiftRight(BitAnd(At(voice_param_data, 14), 96), 5) >> \o
    SliceFrom(voice_param_data, 15)

\* the 155 unpacked bytes of voice i
UnpackVoiceBlock(voice_data) ==
    UnpackOscillator(Slice(voice_data, 0, 17)) \o
    UnpackOscillator(Slice(voice_data, 17, 34)) \o
    UnpackOscillator(Slice(voice_data, 34, 51)) \o
    UnpackOscillator(Slice(voice_data, 51, 68)) \o
    UnpackOscillator(Slice(voice_data, 68, 85)) \o
    UnpackOscillator(Slice(voice_data, 85, 102)) \o
    UnpackVoiceParams(Slice(voice_data, 102, 128))

\* the passes i, i + 1, ..., 31 of the outer loop: new_data[i*155:]
RECURSIVE UnpackVoices(_, _)
UnpackVoices(data, i) ==
    IF i = NumVoices THEN <<>>
    ELSE UnpackVoiceBlock(Slice(data, i * PackedVoiceSize,
                                (i + 1) * PackedVoiceSize))
         \o UnpackVoices(data, i + 1)

_convert_from_32_voice_dump_format(data) == UnpackVoices(data, 0)

\* the bytes at the end of a voice that both converters copy by a slice to the
\* end (temp_data[15:] = voice_param_data[18:], temp_data[18:] =
\* voice_param_data[15:]): a slice of a short input is short, where an index
\* raises IndexError
SliceTail == 11

\* _convert_to_32_voice_dump_format(data) raises IndexError: data ends before
\* the last index the loops read.  Bytes beyond 32 * 155 are never read.
PackRaises(data) == Len(data) < NumVoices * UnpackedVoiceSize - SliceTail

\* _convert_from_32_voice_dump_format(data) raises IndexError; bytes beyond
\* 32 * 128 are never read.
UnpackRaises(data) == Len(data) < NumVoices * PackedVoiceSize - SliceTail

(***************************************************************************)
(* The documented range of every field (the named setters' bounds)         *)
(***************************************************************************)
\* Oscillator setters, fields 0..20: each accepts 0..OscillatorMax[f + 1]
OscillatorMax ==
    << 99, 99, 99, 99, 99, 99, 99, 99, 99, 99, 99,
       3, 3, 7, 3, 7, 99, 1, 31, 99, 14 >>

\* Voice setters, scalar fields 0..18: each accepts 0..VoiceMax[f + 1]
VoiceMax ==
    << 99, 99, 99, 99, 99, 99, 99, 99, 31, 7, 1,
       99, 99, 99, 99, 1, 5, 7, 48 >>

\* Function setters, fields 0..13
FunctionMax ==
    << 1, 12, 12, 1, 1, 99, 99, 7, 99, 7, 99, 7, 99, 7 >>

\* the largest ASCII code, the bound of a name byte
AsciiMax == 127

\* the documented bound of offset k (0..154) of an unpacked voice
UnpackedMax(k) ==
    IF k < 126 THEN At(OscillatorMax, k % 21)
    ELSE IF k - 126 < 19 THEN At(VoiceMax, k - 126)
    ELSE AsciiMax

(***************************************************************************)
(* The records' field tables (_parameter_indices)                          *)
(***************************************************************************)
OscillatorFields ==
    << "EG_RATE_1", "EG_RATE_2", "EG_RATE_3", "EG_RATE_4",
       "EG_LEVEL_1", "EG_LEVEL_2", "EG_LEVEL_3", "EG_LEVEL_4",
       "Breakpoint", "Left_Depth", "Right_Depth", "Left_Curve", "Right_Curve",
       "Rate_Scaling", "Amp_Mod_Scaling", "Key_Velocity", "Output_Level",
       "Oscillator_Mode", "Frequency_Coarse", "Frequency_Fine", "Detune" >>

\* the scalar fields of _voice_parameter_indices (Voice_Name and
\* ActiveOscillators follow them)
VoiceFields ==
    << "Pitch_EG_Rate_1", "Pitch_EG_Rate_2", "Pitch_EG_Rate_3", "Pitch_EG_Rate_4",
       "Pitch_EG_Level_1", "Pitch_EG_Level_2", "Pitch_EG_Level_3", "Pitch_EG_Level_4",
       "Algorithm", "Feedback", "Oscillator_Key_Sync", "LFO_Speed", "LFO_Delay",
       "LFO_Pitch_Mod_Depth", "LFO_Amp_Mod_Depth", "LFO_Key_Sync",
       "LFO_Waveform_Shape", "Pitch_Mod_Sensitivity", "Transpose" >>

FunctionFields ==
    << "Mono_Poly_Mode", "Pitch_Bend_Range", "Pitch_Bend_Step", "Portamento_Mode",
       "Portamento_Gliss", "Portamento_Time", "Mod_Wheel_Range", "Mod_Wheel_Assign",
       "Foot_Control_Range", "Foot_Control_Assign", "Breath_Control_Range",
       "Breath_Control_Assign", "Aftertouch_Range", "Aftertouch_Assign" >>

\* the names Voice.__setattr__ stores an Oscillator under
OscillatorSlots ==
    << "Oscillator1", "Oscillator2", "Oscillator3",
       "Oscillator4", "Oscillator5", "Oscillator6" >>

\* the 0-based index of name in a field table
IndexOf(table, name) == (CHOOSE n \in 1..Len(table) : table[n] = name) - 1

\* name.startswith(prefix)
StartsWith(name, prefix) ==
    Len(name) >= Len(prefix) /\ SubSeq(name, 1, Len(prefix)) = prefix

\* the lengths of the three records' data lists
OscillatorSize == 21

VoiceSize == 29

FunctionSize == 14

\* the first byte of Voice_Name in _voice_data, and the name's length
NameOffset == 19

NameLength == 10

\* ' ', the byte Voice_Name is padded with
SpaceChar == 32

VARIABLES
    oscs,                \* the Oscillator objects: id -> [number, data, active]
    voices,              \* the Voice objects: id -> [number, data, osc],
                         \*   osc[k] the id of the Oscillator held as Oscillator<k>
    function_data,       \* the Function object's _function_data
    cart,                \* the Cart's _voices (ids of Voice objects); <<>>: no Cart
    file_exists,         \* whether the cart file exists
    file,                \* the bytes of the cart file
    midi_output_object,  \* the global: 0 (None) or the id of a MidiOut object
    open_ports,          \* the MidiOut objects whose port is open
    call,                \* the last call: its name (op) and its arguments
    result,              \* what the last call returned or raised
    sent,                \* the messages the last call handed to the transport
    nops,                \* calls made so far that changed a record
    codec_pc,            \* codec run: "in", "packed", "unpacked", "repacked"
    codec_in,            \* the unpacked payload given to the packer
    codec_packed,        \* _convert_to_32_voice_dump_format(codec_in)
    codec_unpacked,      \* _convert_from_32_voice_dump_format(codec_packed)
    codec_repacked       \* _convert_to_32_voice_dump_format(codec_unpacked)

record_vars == << oscs, voices, function_data >>

cart_vars == << cart, file_exists, file >>

midi_vars == << midi_output_object, open_ports >>

call_vars == << call, result, sent >>

codec_vars == << codec_pc, codec_in, codec_packed, codec_unpacked, codec_repacked >>

vars == << record_vars, cart_vars, midi_vars, call_vars, nops, codec_vars >>

(***************************************************************************)
(* Object identities.  Voice ids 0..31 are the Voices a Cart creates for   *)
(* its slots; UserVoice is a Voice the caller constructs.  The six         *)
(* Oscillators a Voice constructs for itself have the ids OwnOsc(v, k);    *)
(* UserOsc is an Oscillator the caller constructs.                         *)
(***************************************************************************)
UserVoice == 32

UserOsc == 0

OwnOsc(v, k) == 6 * v + k

\* Oscillator(number, active=True)
NewOscillator(number) ==
    [number |-> number, data |-> Repeat(0, OscillatorSize), active |-> TRUE]

\* Oscillator(number, data=data): copies min(21, len(data)) values
NewOscillatorFrom(number, data) ==
    [number |-> number,
     data |-> [n \in 1..OscillatorSize |-> IF n <= Len(data) THEN data[n] ELSE 0],
     active |-> TRUE]

\* Voice(number) and Voice(number, data=data), before its oscillators are set
NewVoiceFrom(v, number, data) ==
    [number |-> number,
     data |-> [n \in 1..VoiceSize |-> IF n <= Len(data) THEN data[n] ELSE 0],
     osc |-> [k \in 1..6 |-> OwnOsc(v, k)]]

NewVoice(v, number) == NewVoiceFrom(v, number, <<>>)

\* the six Oscillator(k) that Voice.__init__ of Voice v constructs
OwnOscillators(v) == [o \in {OwnOsc(v, k) : k \in 1..6} |-> NewOscillator(o - 6 * v)]

\* f and g, two functions of disjoint domains, as one; g wins where both are defined
Merge(f, g) ==
    [x \in (DOMAIN f) \cup (DOMAIN g) |-> IF x \in DOMAIN g THEN g[x] ELSE f[x]]

(***************************************************************************)
(* Oscillator, Function and Voice: named setters and raw indexed writes    *)
(***************************************************************************)
\* the frame of a call that touches only the records
RecordCallFrame == UNCHANGED << cart_vars, midi_vars, codec_vars >>

\* osc.<name> = value, the property setter of an Oscillator field
OscillatorSet(o, name, value) ==
    /\ call' = [op |-> "Oscillator.set", o |-> o, name |-> name, value |-> value]
    /\ o \in DOMAIN oscs
    /\ LET f == IndexOf(OscillatorFields, name)
       IN IF value < 0 \/ value > At(OscillatorMax, f)
          THEN result' = "ValueError" /\ UNCHANGED oscs
          ELSE result' = "None" /\ oscs' = [oscs EXCEPT ![o].data[f + 1] = value]
    /\ sent' = <<>>
    /\ UNCHANGED << voices, function_data >>
    /\ RecordCallFrame

\* a Python list of n items indexed by i: the position written, or -1 (IndexError)
ListIndex(n, i) ==
    IF i >= 0 /\ i < n THEN i
    ELSE IF i < 0 /\ i >= -n THEN n + i
    ELSE -1

\* the value clipped to a byte's largest value
ByteOfSaturating(value) == Min(Abs(value), 255)

\* 0xFF & abs(value), the byte a raw write stores
ByteOf(value) == BitAnd(Abs(value), 255)

\* osc[index] = value, Oscillator.__setitem__ (an int value)
OscillatorSetItem(o, index, value) ==
    /\ call' = [op |-> "Oscillator.__setitem__", o |-> o, index |-> index, value |-> value]
    /\ o \in DOMAIN oscs
    /\ LET at == ListIndex(OscillatorSize, index)
       IN IF at < 0
          THEN result' = "IndexError" /\ UNCHANGED oscs
          ELSE /\ result' = "None"
               /\ oscs' = [oscs EXCEPT ![o].data[at + 1] = ByteOf(value)]
    /\ sent' = <<>>
    /\ UNCHANGED << voices, function_data >>
    /\ RecordCallFrame

\* osc.active = active
OscillatorSetActive(o, active) ==
    /\ call' = [op |-> "Oscillator.active", o |-> o, active |-> active]
    /\ o \in DOMAIN oscs
    /\ oscs' = [oscs EXCEPT ![o].active = active]
    /\ result' = "None"
    /\ sent' = <<>>
    /\ UNCHANGED << voices, function_data >>
    /\ RecordCallFrame

\* function.<name> = value, the property setter of a Function field
FunctionSet(name, value) ==
    /\ call' = [op |-> "Function.set", name |-> name, value |-> value]
    /\ LET f == IndexOf(FunctionFields, name)
       IN IF value < 0 \/ value > At(FunctionMax, f)
          THEN result' = "ValueError" /\ UNCHANGED function_data
          ELSE result' = "None" /\ function_data' = [function_data EXCEPT ![f + 1] = value]
    /\ sent' = <<>>
    /\ UNCHANGED << oscs, voices >>
    /\ RecordCallFrame

\* function[index] = value, Function.__setitem__ (an int value)
FunctionSetItem(index, value) ==
    /\ call' = [op |-> "Function.__setitem__", index |-> index, value |-> value]
    /\ LET at == ListIndex(FunctionSize, index)
       IN IF at < 0
          THEN result' = "IndexError" /\ UNCHANGED function_data
          ELSE /\ result' = "None"
               /\ function_data' =
                      [function_data EXCEPT ![at + 1] = ByteOf(value)]
    /\ sent' = <<>>
    /\ UNCHANGED << oscs, voices >>
    /\ RecordCallFrame

\* int(c) of a one-character string; -1: ValueError
DigitOf(c) ==
    CASE c = "0" -> 0 [] c = "1" -> 1 [] c = "2" -> 2 [] c = "3" -> 3
      [] c = "4" -> 4 [] c = "5" -> 5 [] c = "6" -> 6 [] c = "7" -> 7
      [] c = "8" -> 8 [] c = "9" -> 9 [] OTHER -> -1

\* name[-1]
LastChar(name) == SubSeq(name, Len(name), Len(name))

\* the property setter of a scalar Voice field
VoiceFieldSet(v, name, value) ==
    LET f == IndexOf(VoiceFields, name)
    IN IF value < 0 \/ value > At(VoiceMax, f)
       THEN result' = "ValueError" /\ UNCHANGED voices
       ELSE result' = "None" /\ voices' = [voices EXCEPT ![v].data[f + 1] = value]

\* voice.<name> = value for an int value: Voice.__setattr__, which takes every
\* name that starts with 'Oscillator' for an oscillator slot
Voice__setattr__(v, name, value) ==
    /\ call' = [op |-> "Voice.__setattr__", v |-> v, name |-> name, value |-> value]
    /\ v \in DOMAIN voices
    /\ IF StartsWith(name, "Oscillator")
       THEN result' = "ValueError" /\ UNCHANGED voices
       ELSE VoiceFieldSet(v, name, value)
    /\ sent' = <<>>
    /\ UNCHANGED << oscs, function_data >>
    /\ RecordCallFrame

\* voice.<name> = o for an Oscillator o and a name that starts with 'Oscillator'
Voice__setattr__Oscillator(v, name, o) ==
    /\ call' = [op |-> "Voice.__setattr__Oscillator", v |-> v, name |-> name, o |-> o]
    /\ v \in DOMAIN voices
    /\ o \in DOMAIN oscs
    /\ StartsWith(name, "Oscillator")
    /\ LET number == DigitOf(LastChar(name))
       IN IF number < 0
          THEN result' = "ValueError" /\ UNCHANGED << oscs, voices >>
          ELSE /\ result' = "None"
               /\ oscs' = [oscs EXCEPT ![o].number = number]
               /\ voices' = [voices EXCEPT ![v].osc[IndexOf(OscillatorSlots, name) + 1] = o]
    /\ sent' = <<>>
    /\ UNCHANGED function_data
    /\ RecordCallFrame

\* the bytes of str.encode('ascii') of a string given by its code points;
\* a code point above 127 raises UnicodeEncodeError
IsAscii(chars) == \A n \in 1..Len(chars) : chars[n] <= AsciiMax

\* a setter that pads the name with NUL bytes
VoiceSetNameZeroPadded(v, name) ==
    /\ call' = [op |-> "Voice.Voice_Name", v |-> v, name |-> name]
    /\ v \in DOMAIN voices
    /\ LET cut == IF Len(name) > NameLength THEN Slice(name, 0, NameLength) ELSE name
           buffer == [n \in 1..NameLength |-> IF n <= Len(cut) THEN cut[n] ELSE 0]
       IN IF ~IsAscii(buffer)
          THEN result' = "UnicodeEncodeError" /\ UNCHANGED voices
          ELSE /\ result' = "None"
               /\ voices' = [voices EXCEPT ![v].data =
                     Slice(@, 0, NameOffset) \o buffer \o SliceFrom(@, NameOffset + NameLength)]
    /\ sent' = <<>>
    /\ UNCHANGED << oscs, function_data >>
    /\ RecordCallFrame

\* voice.Voice_Name = name: truncated to 10 characters, padded with spaces
VoiceSetName(v, name) ==
    /\ call' = [op |-> "Voice.Voice_Name", v |-> v, name |-> name]
    /\ v \in DOMAIN voices
    /\ LET cut == IF Len(name) > NameLength THEN Slice(name, 0, NameLength) ELSE name
           buffer == [n \in 1..NameLength |-> IF n <= Len(cut) THEN cut[n] ELSE SpaceChar]
       IN IF ~IsAscii(buffer)
          THEN result' = "UnicodeEncodeError" /\ UNCHANGED voices
          ELSE /\ result' = "None"
               /\ voices' = [voices EXCEPT ![v].data =
                     Slice(@, 0, NameOffset) \o buffer \o SliceFrom(@, NameOffset + NameLength)]
    /\ sent' = <<>>
    /\ UNCHANGED << oscs, function_data >>
    /\ RecordCallFrame

\* voice[index] = value, Voice.__setitem__ (an int value)
VoiceSetItem(v, index, value) ==
    /\ call' = [op |-> "Voice.__setitem__", v |-> v, index |-> index, value |-> value]
    /\ v \in DOMAIN voices
    /\ IF index < 0 \/ index > 28
       THEN result' = "IndexError" /\ UNCHANGED voices
       ELSE /\ result' = "None"
            /\ voices' = [voices EXCEPT ![v].data[index + 1] = ByteOf(value)]
    /\ sent' = <<>>
    /\ UNCHANGED << oscs, function_data >>
    /\ RecordCallFrame

\* r[index], __getitem__ of the record whose bytes are data and whose last
\* index is last: all three check 0 <= index <= last before they read
\* [result, returned: the byte, -1 if it raised]
GetItem(data, last, index) ==
    IF index < 0 \/ index > last
    THEN [result |-> "IndexError", returned |-> -1]
    ELSE [result |-> "int", returned |-> At(data, index)]

\* osc[index], Oscillator.__getitem__
OscillatorGetItem(o, index) ==
    /\ call' = [op |-> "Oscillator.__getitem__", o |-> o, index |-> index,
                returned |-> GetItem(oscs[o].data, 20, index).returned]
    /\ o \in DOMAIN oscs
    /\ result' = GetItem(oscs[o].data, 20, index).result
    /\ sent' = <<>>
    /\ UNCHANGED record_vars
    /\ RecordCallFrame

\* function[index], Function.__getitem__
FunctionGetItem(index) ==
    /\ call' = [op |-> "Function.__getitem__", index |-> index,
                returned |-> GetItem(function_data, 13, index).returned]
    /\ result' = GetItem(function_data, 13, index).result
    /\ sent' = <<>>
    /\ UNCHANGED record_vars
    /\ RecordCallFrame

\* voice[index], Voice.__getitem__
VoiceGetItem(v, index) ==
    /\ call' = [op |-> "Voice.__getitem__", v |-> v, index |-> index,
                returned |-> GetItem(voices[v].data, 28, index).returned]
    /\ v \in DOMAIN voices
    /\ result' = GetItem(voices[v].data, 28, index).result
    /\ sent' = <<>>
    /\ UNCHANGED record_vars
    /\ RecordCallFrame

\* voice.get_oscillators(): the six Oscillators held, Oscillator1 first
get_oscillators(v) == [k \in 1..6 |-> oscs[voices[v].osc[k]]]

\* the flags as a binary number, Oscillator6 first
ActiveOscillatorsLowFirst(v) ==
    LET bit(k) == IF get_oscillators(v)[k].active THEN 1 ELSE 0
    IN  bit(1) + 2 * bit(2) + 4 * bit(3) + 8 * bit(4) + 16 * bit(5) + 32 * bit(6)

\* voice.ActiveOscillators: the flags as a binary number, Oscillator1 first
ActiveOscillators(v) ==
    LET bit(k) == IF get_oscillators(v)[k].active THEN 1 ELSE 0
    IN  32 * bit(1) + 16 * bit(2) + 8 * bit(3) + 4 * bit(4) + 2 * bit(5) + bit(6)

\* the keys of _voice_parameter_indices: the scalar fields, then Voice_Name
\* and ActiveOscillators
VoiceParameters == VoiceFields \o << "Voice_Name", "ActiveOscillators" >>

\* list(self._voice_parameter_indices.values()): 0..19, then 29
VoiceParameterValues ==
    [n \in 1..Len(VoiceParameters) |-> IF n <= NameOffset + 1 THEN n - 1 ELSE VoiceSize]

\* name in table
InTable(table, name) == \E n \in 1..Len(table) : table[n] = name

\* the outcome of a midi_addr_of call: the int returned, or the error raised
\* (returned is then -1 and stands for no value)
Returned(address) == [result |-> "int", returned |-> address]

Raised(error) == [result |-> error, returned |-> -1]

\* a lookup that counts the record base from Oscillator1 upwards
OscillatorAddressFromOne(o, parameter, is_str) ==
    IF is_str
    THEN IF InTable(OscillatorFields, parameter)
         THEN Returned(IndexOf(OscillatorFields, parameter) + 21 * (oscs[o].number - 1))
         ELSE Raised("KeyError")
    ELSE IF ListIndex(OscillatorSize, parameter) < 0
         THEN Raised("IndexError")
         ELSE Returned(ListIndex(OscillatorSize, parameter) + 21 * (oscs[o].number - 1))

\* osc.midi_addr_of(parameter), parameter a str (is_str) or an int
OscillatorAddress(o, parameter, is_str) ==
    IF is_str
    THEN IF InTable(OscillatorFields, parameter)
         THEN Returned(IndexOf(OscillatorFields, parameter) + 21 * (6 - oscs[o].number))
         ELSE Raised("KeyError")
    ELSE IF ListIndex(OscillatorSize, parameter) < 0
         THEN Raised("IndexError")
         ELSE Returned(ListIndex(OscillatorSize, parameter) + 21 * (6 - oscs[o].number))

\* function.midi_addr_of(parameter)
FunctionAddress(parameter, is_str) ==
    IF ~is_str THEN Raised("ValueError")
    ELSE IF InTable(FunctionFields, parameter)
         THEN Returned(IndexOf(FunctionFields, parameter) + 64)
         ELSE Raised("KeyError")

\* voice.midi_addr_of(parameter)
VoiceAddress(parameter, is_str) ==
    IF is_str
    THEN IF InTable(VoiceParameters, parameter)
         THEN Returned(At(VoiceParameterValues, IndexOf(VoiceParameters, parameter)) + 21 * 6)
         ELSE Raised("KeyError")
    ELSE IF ListIndex(Len(VoiceParameters), parameter) < 0
         THEN Raised("IndexError")
         ELSE Returned(At(VoiceParameterValues, ListIndex(Len(VoiceParameters), parameter))
                       + 21 * 6)

\* the calls of midi_addr_of: they change no record
OscillatorMidiAddrOf(o, parameter, is_str) ==
    /\ o \in DOMAIN oscs
    /\ call' = [op |-> "Oscillator.midi_addr_of", o |-> o, parameter |-> parameter,
                is_str |-> is_str,
                returned |-> OscillatorAddress(o, parameter, is_str).returned]
    /\ result' = OscillatorAddress(o, parameter, is_str).result
    /\ sent' = <<>>
    /\ UNCHANGED record_vars
    /\ RecordCallFrame

FunctionMidiAddrOf(parameter, is_str) ==
    /\ call' = [op |-> "Function.midi_addr_of", parameter |-> parameter,
                is_str |-> is_str,
                returned |-> FunctionAddress(parameter, is_str).returned]
    /\ result' = FunctionAddress(parameter, is_str).result
    /\ sent' = <<>>
    /\ UNCHANGED record_vars
    /\ RecordCallFrame

VoiceMidiAddrOf(v, parameter, is_str) ==
    /\ v \in DOMAIN voices
    /\ call' = [op |-> "Voice.midi_addr_of", v |-> v, parameter |-> parameter,
                is_str |-> is_str,
                returned |-> VoiceAddress(parameter, is_str).returned]
    /\ result' = VoiceAddress(parameter, is_str).result
    /\ sent' = <<>>
    /\ UNCHANGED record_vars
    /\ RecordCallFrame

(***************************************************************************)
(* The MIDI transport and the messages handed to it                        *)
(***************************************************************************)
\* MidiOut objects the model lets exist at once
MaxPorts == 2

\* midi_connection(name): a new MidiOut, its port opened, becomes the global.
\* The MidiOut the global held before is not closed; the caller holds it as
\* the earlier call's return value (examples: midi_out = midi_connection(...)).
midi_connection ==
    /\ call' = [op |-> "midi_connection"]
    /\ \E p \in 1..MaxPorts : p \notin open_ports
    /\ LET p == CHOOSE q \in 1..MaxPorts : q \notin open_ports
       IN /\ midi_output_object' = p
          /\ open_ports' = open_ports \cup {p}
    /\ result' = "MidiOut"
    /\ sent' = <<>>
    /\ UNCHANGED << record_vars, cart_vars, codec_vars >>

close_midi_connection ==
    /\ call' = [op |-> "close_midi_connection"]
    /\ IF midi_output_object # 0
       THEN /\ open_ports' = open_ports \ {midi_output_object}
            /\ midi_output_object' = 0
       ELSE UNCHANGED midi_vars
    /\ result' = "None"
    /\ sent' = <<>>
    /\ UNCHANGED << record_vars, cart_vars, codec_vars >>

\* send_message is taken to consume any iterable of ints it is given (a list,
\* an itertools.chain) and to fail only by raising RtMidiError.
\* The loop "try: midi_output_object.send_message(m) ... except: return False"
\* over messages: the transport raises at its reject-th call (0: never).
\* [sent: the messages it took, ok: no call failed]
Transmit(messages, reject) ==
    IF messages = <<>> THEN [sent |-> <<>>, ok |-> TRUE]
    ELSE IF midi_output_object = 0 THEN [sent |-> <<>>, ok |-> FALSE]
    ELSE IF reject >= 1 /\ reject <= Len(messages)
         THEN [sent |-> SubSeq(messages, 1, reject - 1), ok |-> FALSE]
    ELSE [sent |-> messages, ok |-> TRUE]

\* a message that leaves the two high bits of the address out of its fourth byte
ParameterMessageLowAddress(parameter, value_byte, function_change, channel) ==
    LET masked == IF value_byte < 0 \/ value_byte > 127
                  THEN BitAnd(value_byte, 127) ELSE value_byte
        voice_change == IF function_change # 0 THEN 8 ELSE 0
    IN << 240, 67, 16 + channel, voice_change, BitAnd(parameter, 127), masked, 247 >>

\* the message send_dexed_parameter forms for one value byte
ParameterMessage(parameter, value_byte, function_change, channel) ==
    LET masked == IF value_byte < 0 \/ value_byte > 127
                  THEN BitAnd(value_byte, 127) ELSE value_byte
        sub_status == 1
        voice_change == IF function_change # 0 THEN 8 ELSE 0
    IN << 240, 67, sub_status * 16 + channel,
          voice_change + BitAnd(ShiftRight(parameter, 7), 3),
          BitAnd(parameter, 127), masked, 247 >>

\* the messages of the loop over bytes, parameter incremented after each
ParameterMessages(parameter, bytes, function_change, channel) ==
    [k \in 1..Len(bytes) |->
        ParameterMessage(parameter + (k - 1), bytes[k], function_change, channel)]

\* the value bytes: [value] of an int, the ASCII bytes of value[:10] of a str
ValueBytes(value, is_str) ==
    IF is_str
    THEN IF Len(value) > NameLength THEN Slice(value, 0, NameLength) ELSE value
    ELSE << value >>

\* send_dexed_parameter(parameter, value, function_change, channel); value is an
\* int, or with is_str a string given by its code points; function_change is
\* tested for truth (False is 0)
send_dexed_parameter(parameter, value, is_str, function_change, channel, reject) ==
    /\ call' = [op |-> "send_dexed_parameter", parameter |-> parameter, value |-> value, is_str |-> is_str, function_change |-> function_change, channel |-> channel, reject |-> reject]
    /\ LET bytes == ValueBytes(value, is_str)
           out == Transmit(ParameterMessages(parameter, bytes, function_change, channel),
                           reject)
       IN IF is_str /\ ~IsAscii(bytes)
          THEN result' = "UnicodeEncodeError" /\ sent' = <<>>
          ELSE IF parameter < 0 \/ parameter > 155
          THEN result' = "ValueError" /\ sent' = <<>>
          ELSE IF channel < 0 \/ channel > 15
          THEN result' = "ValueError" /\ sent' = <<>>
          ELSE /\ result' = IF out.ok THEN "True" ELSE "False"
               /\ sent' = out.sent
    /\ UNCHANGED << record_vars, cart_vars, midi_vars, codec_vars >>

\* a payload in the order of the cart file, Oscillator6 first
VoiceDumpPayloadReversed(v) ==
    get_oscillators(v)[6].data \o get_oscillators(v)[5].data \o
    get_oscillators(v)[4].data \o get_oscillators(v)[3].data \o
    get_oscillators(v)[2].data \o get_oscillators(v)[1].data \o
    voices[v].data

\* the unpacked 155 bytes of Voice v as Voice.send_to_dexed chains them
VoiceDumpPayload(v) ==
    get_oscillators(v)[1].data \o get_oscillators(v)[2].data \o
    get_oscillators(v)[3].data \o get_oscillators(v)[4].data \o
    get_oscillators(v)[5].data \o get_oscillators(v)[6].data \o
    voices[v].data

\* the checksum Voice.send_to_dexed computes
VoiceDumpChecksum(payload) == BitAnd(Sum(payload), 127)

\* the message Voice.send_to_dexed forms
VoiceDumpMessage(v, channel) ==
    LET sub_status == 0
        format_n == 0
        byte_count_MSB == 1
        byte_count_LSB == 27
        payload == VoiceDumpPayload(v)
    IN << 240, 67, sub_status * 16 + channel, format_n, byte_count_MSB, byte_count_LSB >>
       \o payload \o << VoiceDumpChecksum(payload), 247 >>

\* Voice.midi_addr_of('ActiveOscillators')
ActiveOscillatorsAddr == 29 + 21 * 6

\* voice.send_to_dexed(channel): the dump, then
\* send_dexed_parameter(addr, ActiveOscillators, channel), whose third
\* positional parameter is function_change and whose result is dropped
VoiceSendToDexed(v, channel, reject) ==
    /\ call' = [op |-> "Voice.send_to_dexed", v |-> v, channel |-> channel, reject |-> reject]
    /\ v \in DOMAIN voices
    /\ LET dump == Transmit(<< VoiceDumpMessage(v, channel) >>, reject)
           follow == Transmit(ParameterMessages(ActiveOscillatorsAddr,
                                                << ActiveOscillators(v) >>, channel, 0),
                              reject - 1)
       IN IF ~dump.ok
          THEN result' = "False" /\ sent' = <<>>
          ELSE result' = "True" /\ sent' = dump.sent \o follow.sent
    /\ UNCHANGED << record_vars, cart_vars, midi_vars, codec_vars >>

(***************************************************************************)
(* Cart                                                                    *)
(***************************************************************************)
\* bytes.fromhex('F04300092000'), the header of the cart file and of the bulk dump
CartHeader == << 240, 67, 0, 9, 32, 0 >>

\* the unpacked bytes of the Voice v with zeros for an oscillator that is not
\* active
VoiceUnpackedActiveOnly(v) ==
    LET bytes(k) == IF get_oscillators(v)[k].active THEN get_oscillators(v)[k].data
                    ELSE Repeat(0, OscillatorSize)
    IN  bytes(6) \o bytes(5) \o bytes(4) \o bytes(3) \o bytes(2) \o bytes(1) \o
        voices[v].data

\* the unpacked bytes of the Voice v chained Oscillator1 first
VoiceUnpackedOscillator1First(v) ==
    get_oscillators(v)[1].data \o get_oscillators(v)[2].data \o
    get_oscillators(v)[3].data \o get_oscillators(v)[4].data \o
    get_oscillators(v)[5].data \o get_oscillators(v)[6].data \o
    voices[v].data

\* the unpacked bytes of the Voice v as save_to_file and send_to_dexed chain
\* them: Oscillator6 first, then the voice's own data
VoiceUnpacked(v) ==
    get_oscillators(v)[6].data \o get_oscillators(v)[5].data \o
    get_oscillators(v)[4].data \o get_oscillators(v)[3].data \o
    get_oscillators(v)[2].data \o get_oscillators(v)[1].data \o
    voices[v].data

\* total_voice_data flattened: the voices i, i + 1, ..., 31 of the cart
RECURSIVE CartUnpackedFrom(_)
CartUnpackedFrom(i) ==
    IF i = NumVoices THEN <<>>
    ELSE VoiceUnpacked(At(cart, i)) \o CartUnpackedFrom(i + 1)

\* bytes(values) accepts only values in range(256)
IsBytes(values) == \A n \in 1..Len(values) : values[n] >= 0 /\ values[n] <= 255

\* the sum's low seven bits, not negated: what Voice.send_to_dexed computes
CartChecksumOfSum(packed_data) == BitAnd(Sum(packed_data), 127)

\* ((-1*sum(packed_data)) & 0x7F)
CartChecksum(packed_data) == BitAnd(-1 * Sum(packed_data), 127)

\* what save_to_file writes and what Cart.send_to_dexed sends
\* a frame without the checksum byte
CartFrameNoChecksum(packed_data) == CartHeader \o packed_data \o << 247 >>

\* header, packed data, checksum and F7, as save_to_file and send_to_dexed join them
CartFrame(packed_data) ==
    CartHeader \o packed_data \o << CartChecksum(packed_data) >> \o << 247 >>

CartMessage == CartFrame(_convert_to_32_voice_dump_format(CartUnpackedFrom(0)))

\* cart.save_to_file(filename): open(filename, 'wb') empties the file first
save_to_file ==
    /\ call' = [op |-> "Cart.save_to_file"]
    /\ cart # <<>>
    /\ file_exists' = TRUE
    /\ IF ~IsBytes(CartUnpackedFrom(0))
       THEN result' = "ValueError" /\ file' = <<>>
       ELSE result' = "None" /\ file' = CartMessage
    /\ sent' = <<>>
    /\ UNCHANGED << record_vars, cart, midi_vars, codec_vars >>

\* the 32 Voices read_from_file builds from the unpacked data, and their
\* Oscillators: block j of a voice's 155 bytes becomes Oscillator(6 - j)
VoicesRead(unpacked_data) ==
    [i \in 0..(NumVoices - 1) |->
        NewVoiceFrom(i, i, Slice(unpacked_data, i * 155 + 6 * 21, (i + 1) * 155))]

OscillatorsRead(unpacked_data) ==
    [o \in {OwnOsc(i, k) : i \in 0..(NumVoices - 1), k \in 1..6} |->
        LET i == (o - 1) \div 6
            k == o - 6 * i
        IN NewOscillatorFrom(k, Slice(unpacked_data, i * 155 + 21 * (6 - k),
                                      i * 155 + 21 * (6 - k) + 21))]

\* the outcome of read_from_file on the cart file: "None", or what it raises
ReadOutcome ==
    IF ~file_exists THEN "FileNotFoundError"
    ELSE IF Slice(file, 0, 4) # << 240, 67, 0, 9 >> THEN "ValueError"
    ELSE IF Slice(file, 4, 6) # << 32, 0 >> THEN "ValueError"
    ELSE IF UnpackRaises(Slice(file, 6, Len(file) - 2)) THEN "IndexError"
    ELSE "None"

\* the effect of a read_from_file that raises nothing on the records and the cart
ReadEffect ==
    LET data == Slice(file, 6, Len(file) - 2)
        unpacked_data == _convert_from_32_voice_dump_format(data)
    IN /\ voices' = Merge(voices, VoicesRead(unpacked_data))
       /\ oscs' = Merge(oscs, OscillatorsRead(unpacked_data))
       /\ cart' = [n \in 1..NumVoices |-> n - 1]

\* cart.read_from_file(filename)
read_from_file ==
    /\ call' = [op |-> "Cart.read_from_file"]
    /\ cart # <<>>
    /\ result' = ReadOutcome
    /\ IF ReadOutcome = "None" THEN ReadEffect ELSE UNCHANGED << voices, oscs, cart >>
    /\ sent' = <<>>
    /\ UNCHANGED << function_data, file_exists, file, midi_vars, codec_vars >>

\* the cart file as another program left it: open(filename, 'rb') reads f
ExternalFile(f) ==
    /\ call' = [op |-> "file"]
    /\ file_exists' = TRUE
    /\ file' = f
    /\ result' = "None"
    /\ sent' = <<>>
    /\ UNCHANGED << record_vars, cart, midi_vars, codec_vars >>

\* the 32 Voice(i) of Cart.__init__, with their Oscillators
FreshVoices == [i \in 0..(NumVoices - 1) |-> NewVoice(i, i)]

FreshOscillators ==
    [o \in {OwnOsc(i, k) : i \in 0..(NumVoices - 1), k \in 1..6} |->
        NewOscillator(o - 6 * ((o - 1) \div 6))]

\* cart = Cart(filename=...), voices not given.  The parameter's default value
\* is the expression  str | None,  which is not None: "default" reads from it,
\* and open() raises TypeError.  "None" is an explicit filename=None, "path"
\* names the cart file.  A constructor that raises leaves cart unbound.
Cart__init__(filename) ==
    /\ call' = [op |-> "Cart.__init__", filename |-> filename]
    /\ filename \in {"default", "None", "path"}
    /\ IF filename = "default"
       THEN result' = "TypeError" /\ UNCHANGED << voices, oscs, cart >>
       ELSE IF filename = "None"
       THEN /\ result' = "Cart"
            /\ voices' = Merge(voices, FreshVoices)
            /\ oscs' = Merge(oscs, FreshOscillators)
            /\ cart' = [n \in 1..NumVoices |-> n - 1]
       ELSE IF ReadOutcome = "None"
       THEN result' = "Cart" /\ ReadEffect
       ELSE result' = ReadOutcome /\ UNCHANGED << voices, oscs, cart >>
    /\ sent' = <<>>
    /\ UNCHANGED << function_data, file_exists, file, midi_vars, codec_vars >>

\* cart = Cart(voices=voice_list, filename=None) for a list of Voices: the 32
\* Voice(i) are constructed first, then the list itself becomes _voices, its
\* length and the numbers of its Voices as the caller left them
Cart__init__Voices(voice_list) ==
    /\ call' = [op |-> "Cart.__init__", filename |-> "None", voices |-> voice_list]
    /\ \A n \in 1..Len(voice_list) : voice_list[n] \in DOMAIN voices
    /\ result' = "Cart"
    /\ voices' = Merge(voices, FreshVoices)
    /\ oscs' = Merge(oscs, FreshOscillators)
    /\ cart' = voice_list
    /\ sent' = <<>>
    /\ UNCHANGED << function_data, file_exists, file, midi_vars, codec_vars >>

\* cart[index] = value for a Voice value
Cart__setitem__(index, value) ==
    /\ call' = [op |-> "Cart.__setitem__", index |-> index, value |-> value]
    /\ cart # <<>>
    /\ value \in DOMAIN voices
    /\ IF index < 0 \/ index > 31
       THEN result' = "IndexError" /\ UNCHANGED << voices, cart >>
       ELSE /\ result' = "None"
            /\ voices' = [voices EXCEPT ![value].number = index]
            /\ cart' = [cart EXCEPT ![index + 1] = value]
    /\ sent' = <<>>
    /\ UNCHANGED << oscs, function_data, file_exists, file, midi_vars, codec_vars >>

\* cart.send_to_dexed(channel)
CartSendToDexed(channel, reject) ==
    /\ call' = [op |-> "Cart.send_to_dexed", channel |-> channel, reject |-> reject]
    /\ cart # <<>>
    /\ LET out == Transmit(<< CartMessage >>, reject)
       IN IF ~IsBytes(CartUnpackedFrom(0))
          THEN result' = "ValueError" /\ sent' = <<>>
          ELSE /\ result' = IF out.ok THEN "True" ELSE "False"
               /\ sent' = out.sent
    /\ UNCHANGED << record_vars, cart_vars, midi_vars, codec_vars >>

(***************************************************************************)
(* The state after the caller's constructions                              *)
(*   osc = Oscillator(1); voice = Voice(0); func = Function()              *)
(* with no MIDI connection, no Cart and no cart file.                      *)
(***************************************************************************)
CodecIdle ==
    /\ codec_pc = "off"
    /\ codec_in = <<>>
    /\ codec_packed = <<>>
    /\ codec_unpacked = <<>>
    /\ codec_repacked = <<>>

\* the program's variables as Init leaves them
ProgramIdle ==
    /\ oscs = Merge(OwnOscillators(UserVoice), [o \in {UserOsc} |-> NewOscillator(1)])
    /\ voices = [v \in {UserVoice} |-> NewVoice(UserVoice, 0)]
    /\ function_data = Repeat(0, FunctionSize)
    /\ cart = <<>>
    /\ file_exists = FALSE
    /\ file = <<>>
    /\ midi_output_object = 0
    /\ open_ports = {}
    /\ call = [op |-> "none"]
    /\ result = "None"
    /\ sent = <<>>
    /\ nops = 0

program_vars == << record_vars, cart_vars, midi_vars, call_vars, nops >>

Init == ProgramIdle /\ CodecIdle

(***************************************************************************)
(* Spec: the records of one voice and the messages sent for them           *)
(***************************************************************************)
\* calls that change a record, per behaviour
MaxOps == 2

\* channel arguments of Voice.send_to_dexed
Channels == {0, 1, 15}

\* the send_message call at which the transport raises RtMidiError (0: never)
Rejects == {0, 1, 2}

\* strings, by their code points: '', 'AB', and 11 characters '0123456789:'
Strings ==
    { <<>>, << 65, 66 >>,
      << 48, 49, 50, 51, 52, 53, 54, 55, 56, 57, 58 >> }

\* the changes to the voice and its oscillators that Spec draws from
RecordChange ==
    \/ \E k \in {1, 6} : OscillatorSet(voices[UserVoice].osc[k], "EG_RATE_1", 1)
    \/ \E value \in {14, 15} : OscillatorSet(voices[UserVoice].osc[6], "Detune", value)
    \/ OscillatorSetItem(voices[UserVoice].osc[2], 20, 300)
    \/ \E k \in {1, 6} : OscillatorSetActive(voices[UserVoice].osc[k], FALSE)
    \/ OscillatorSetActive(voices[UserVoice].osc[1], TRUE)
    \/ OscillatorSetActive(UserOsc, FALSE)
    \/ Voice__setattr__(UserVoice, "Algorithm", 31)
    \/ VoiceSetItem(UserVoice, 28, 127)
    \/ VoiceSetName(UserVoice, << 65, 66 >>)
    \/ Voice__setattr__Oscillator(UserVoice, "Oscillator3", UserOsc)

Change ==
    /\ nops < MaxOps
    /\ nops' = nops + 1
    /\ RecordChange

Connect ==
    /\ midi_connection
    /\ UNCHANGED nops

Close ==
    /\ close_midi_connection
    /\ UNCHANGED nops

SendVoice ==
    /\ \E channel \in Channels, reject \in Rejects :
          VoiceSendToDexed(UserVoice, channel, reject)
    /\ UNCHANGED nops

Next == Change \/ Connect \/ Close \/ SendVoice

Spec == Init /\ [][Next]_vars

(***************************************************************************)
(* SpecParameter: send_dexed_parameter over the transport's states         *)
(***************************************************************************)
\* the arguments send_dexed_parameter is called with
ParameterArgs == {-1, 0, 127, 155, 156}

ChannelArgs == {0, 15, 16}

IntValues == {-1, 99, 128}

SendParameter ==
    /\ \E parameter \in ParameterArgs, function_change \in {0, 1},
          channel \in ChannelArgs, reject \in {0, 2} :
          \/ \E value \in IntValues :
                send_dexed_parameter(parameter, value, FALSE, function_change,
                                     channel, reject)
          \/ \E value \in Strings :
                send_dexed_parameter(parameter, value, TRUE, function_change,
                                     channel, reject)
    /\ UNCHANGED nops

ParameterNext == Connect \/ Close \/ SendParameter

SpecParameter == Init /\ [][ParameterNext]_vars

(***************************************************************************)
(* SpecFields: every named setter, at and beyond the bounds of its field   *)
(***************************************************************************)
\* named setter calls per behaviour
MaxFieldOps == 2

\* the values tried for a field whose documented range is 0..max
Around(max) == {-1, 0, max, max + 1}

\* names, by their code points: the Strings, '0123456789' and one that is not
\* ASCII
Names == Strings \cup { << 48, 49, 50, 51, 52, 53, 54, 55, 56, 57 >>, << 233 >> }

FieldSet ==
    \/ \E n \in 1..Len(OscillatorFields) : \E value \in Around(OscillatorMax[n]) :
          OscillatorSet(UserOsc, OscillatorFields[n], value)
    \/ \E n \in 1..Len(VoiceFields) : \E value \in Around(VoiceMax[n]) :
          Voice__setattr__(UserVoice, VoiceFields[n], value)
    \/ \E n \in 1..Len(FunctionFields) : \E value \in Around(FunctionMax[n]) :
          FunctionSet(FunctionFields[n], value)
    \/ \E name \in Names : VoiceSetName(UserVoice, name)

FieldsNext ==
    /\ nops < MaxFieldOps
    /\ nops' = nops + 1
    /\ FieldSet

SpecFields == Init /\ [][FieldsNext]_vars

(***************************************************************************)
(* SpecRaw: raw indexed writes r[i] = v on the three records               *)
(***************************************************************************)
\* raw writes per behaviour
MaxRawOps == 2

\* the values written: negative, in every range, a byte's ends and beyond
RawValues == {-300, -1, 0, 99, 255, 256, 300}

\* the indexes tried on a record of n bytes: its ends, one inside, and the
\* neighbours outside
RawIndexes(n) == {-1, 0, 11, n - 1, n}

RawWrite ==
    \/ \E o \in {UserOsc, voices[UserVoice].osc[6]} :
       \E index \in RawIndexes(OscillatorSize) : \E value \in RawValues :
          OscillatorSetItem(o, index, value)
    \/ \E index \in RawIndexes(VoiceSize) : \E value \in RawValues :
          VoiceSetItem(UserVoice, index, value)
    \/ \E index \in RawIndexes(FunctionSize) : \E value \in RawValues :
          FunctionSetItem(index, value)

\* the indexes read: RawIndexes and the far negatives
RawRead ==
    \/ \E o \in {UserOsc, voices[UserVoice].osc[6]} :
       \E index \in RawIndexes(OscillatorSize) \cup {-OscillatorSize - 1} :
          OscillatorGetItem(o, index)
    \/ \E index \in RawIndexes(VoiceSize) \cup {-VoiceSize - 1} :
          VoiceGetItem(UserVoice, index)
    \/ \E index \in RawIndexes(FunctionSize) \cup {-FunctionSize - 1} :
          FunctionGetItem(index)

\* raw writes at the far negative indexes, where a Python list raises
RawWriteFar ==
    \/ OscillatorSetItem(UserOsc, -OscillatorSize - 1, 99)
    \/ VoiceSetItem(UserVoice, -VoiceSize - 1, 99)
    \/ FunctionSetItem(-FunctionSize - 1, 99)

RawNext ==
    /\ nops < MaxRawOps
    /\ nops' = nops + 1
    /\ (RawWrite \/ RawRead \/ RawWriteFar)

SpecRaw == Init /\ [][RawNext]_vars

(***************************************************************************)
(* SpecAddress: midi_addr_of on a voice whose slots are assigned           *)
(***************************************************************************)
\* calls per behaviour
MaxAddressOps == 3

\* parameter arguments that are no field name and no index of a field
NoName == "Nope"

OscillatorLookups ==
    \E o \in {UserOsc} \cup {voices[UserVoice].osc[k] : k \in {1, 3, 6}} :
        \/ \E name \in {"EG_RATE_1", "Oscillator_Mode", "Detune", NoName} :
              OscillatorMidiAddrOf(o, name, TRUE)
        \/ \E index \in {-22, -1, 0, 20, 21} : OscillatorMidiAddrOf(o, index, FALSE)

VoiceLookups ==
    \/ \E name \in {"Pitch_EG_Rate_1", "Transpose", "Voice_Name", "ActiveOscillators",
                     NoName} :
          VoiceMidiAddrOf(UserVoice, name, TRUE)
    \/ \E index \in {-22, -1, 0, 19, 20, 21} : VoiceMidiAddrOf(UserVoice, index, FALSE)

FunctionLookups ==
    \/ \E name \in {"Mono_Poly_Mode", "Aftertouch_Assign", NoName} :
          FunctionMidiAddrOf(name, TRUE)
    \/ FunctionMidiAddrOf(0, FALSE)

\* voice.Oscillator1 = osc, voice.Oscillator3 = osc
SlotAssign ==
    \E name \in {"Oscillator1", "Oscillator3"} :
        Voice__setattr__Oscillator(UserVoice, name, UserOsc)

AddressNext ==
    /\ nops < MaxAddressOps
    /\ nops' = nops + 1
    /\ (SlotAssign \/ OscillatorLookups \/ VoiceLookups \/ FunctionLookups)

SpecAddress == Init /\ [][AddressNext]_vars

(***************************************************************************)
(* SpecCart: a Cart, its file and its bulk dump                            *)
(***************************************************************************)
\* calls on the Cart class per behaviour
MaxCartOps == 3

\* the cart slots SpecCart changes: the first and the last
FirstSlot == 0

LastSlot == NumVoices - 1

CartSlots == {FirstSlot, LastSlot}

\* a named setter, a raw write and a name on the Voice v
CartVoiceChange(v) ==
    \/ Voice__setattr__(v, "Pitch_Mod_Sensitivity", 7)
    \/ VoiceSetItem(v, 0, 255)
    \/ VoiceSetName(v, << 65, 66 >>)

\* a named setter, a raw write and the active flag on Oscillators of the Voice v
CartOscillatorChange(v) ==
    \/ OscillatorSet(voices[v].osc[1], "EG_RATE_1", 99)
    \/ OscillatorSetItem(voices[v].osc[6], 20, 255)
    \/ OscillatorSetActive(voices[v].osc[4], FALSE)

CartConstruct ==
    /\ nops < MaxCartOps
    /\ nops' = nops + 1
    /\ \E filename \in {"default", "None", "path"} : Cart__init__(filename)

CartChange ==
    /\ nops < MaxCartOps
    /\ nops' = nops + 1
    /\ cart # <<>>
    /\ \/ CartVoiceChange(At(cart, FirstSlot))
       \/ CartOscillatorChange(At(cart, LastSlot))
       \/ \E i \in CartSlots : Cart__setitem__(i, UserVoice)

CartRead ==
    /\ nops < MaxCartOps
    /\ nops' = nops + 1
    /\ read_from_file

CartSave ==
    /\ nops < MaxCartOps
    /\ nops' = nops + 1
    /\ save_to_file

\* the arguments of Cart.send_to_dexed, and the send_message call that fails
CartSendArgs ==
    { [channel |-> 0, reject |-> 0], [channel |-> 15, reject |-> 0],
      [channel |-> 15, reject |-> 1] }

CartSend ==
    /\ nops < MaxCartOps
    /\ nops' = nops + 1
    /\ \E args \in CartSendArgs : CartSendToDexed(args.channel, args.reject)

CartNext == CartConstruct \/ CartChange \/ CartRead \/ CartSave \/ CartSend \/ Connect \/ Close

SpecCart == Init /\ [][CartNext]_vars

(***************************************************************************)
(* SpecSlots: one Cart, its oscillators changed, saved, read back and sent *)
(***************************************************************************)
\* calls per behaviour
MaxSlotOps == 4

\* cart = Cart(filename=None), once
SlotConstruct ==
    /\ nops < MaxSlotOps
    /\ nops' = nops + 1
    /\ cart = <<>>
    /\ Cart__init__("None")

\* EG_RATE_1 of Oscillator1 or Oscillator6 of the last voice, a raw write
\* beyond Detune's range on Oscillator2 of the first, and the active flag of
\* Oscillator1 of the last
SlotChange ==
    /\ nops < MaxSlotOps
    /\ nops' = nops + 1
    /\ cart # <<>>
    /\ \/ \E k \in {1, 6} :
             OscillatorSet(voices[At(cart, LastSlot)].osc[k], "EG_RATE_1", 99)
       \/ OscillatorSetItem(voices[At(cart, FirstSlot)].osc[2], 20, 255)
       \/ \E active \in BOOLEAN :
             OscillatorSetActive(voices[At(cart, LastSlot)].osc[1], active)

SlotSave ==
    /\ nops < MaxSlotOps
    /\ nops' = nops + 1
    /\ save_to_file

SlotRead ==
    /\ nops < MaxSlotOps
    /\ nops' = nops + 1
    /\ read_from_file

\* midi_connection(name), once
SlotConnect ==
    /\ nops < MaxSlotOps
    /\ nops' = nops + 1
    /\ midi_output_object = 0
    /\ midi_connection

SlotSend ==
    /\ nops < MaxSlotOps
    /\ nops' = nops + 1
    /\ CartSendToDexed(0, 0)

SlotsNext ==
    SlotConstruct \/ SlotChange \/ SlotSave \/ SlotRead \/ SlotConnect \/ SlotSend

SpecSlots == Init /\ [][SlotsNext]_vars

(***************************************************************************)
(* SpecFile: cart files of other programs, read by a Cart                  *)
(***************************************************************************)
\* calls per behaviour
MaxFileOps == 3

\* a header with the status byte s
StatusHeader(s) == << 240, 67, s, 9, 32, 0 >>

\* the headers tried: every channel nibble's ends, a status byte with a high
\* nibble, and one header per other byte that differs in that byte
FileHeaders ==
    { StatusHeader(s) : s \in {0, 1, 15, 16} }
    \cup { << 241, 67, 0, 9, 32, 0 >>, << 240, 68, 0, 9, 32, 0 >>,
           << 240, 67, 0, 8, 32, 0 >>, << 240, 67, 0, 9, 33, 0 >>,
           << 240, 67, 0, 9, 32, 1 >> }

\* payload lengths tried: none, around the last index the unpacker reads,
\* one short, exact, one long and a voice long
PayloadSizes ==
    {0, NumVoices * PackedVoiceSize - SliceTail - 1,
     NumVoices * PackedVoiceSize - SliceTail,
     NumVoices * PackedVoiceSize - 1, NumVoices * PackedVoiceSize,
     NumVoices * PackedVoiceSize + 1, (NumVoices + 1) * PackedVoiceSize}

\* a file of the cart format: header, payload, checksum, F7
FileWith(header, payload) == header \o payload \o << CartChecksum(payload), 247 >>

CartFiles ==
    { FileWith(h, Repeat(1, NumVoices * PackedVoiceSize)) : h \in FileHeaders }
    \cup { FileWith(StatusHeader(0), Repeat(1, n)) : n \in PayloadSizes }
    \cup { <<>> }

FileProvide ==
    /\ nops < MaxFileOps
    /\ nops' = nops + 1
    /\ \E f \in CartFiles : ExternalFile(f)

\* Cart(filename=None), Cart(filename=path) and Cart(voices=[voice] * 32,
\* filename=None) for the caller's Voice(0)
FileConstruct ==
    /\ nops < MaxFileOps
    /\ nops' = nops + 1
    /\ \/ \E filename \in {"None", "path"} : Cart__init__(filename)
       \/ Cart__init__Voices(Repeat(UserVoice, NumVoices))

\* cart[i] = voice for the caller's Voice and the first and the last slot
FileAssign ==
    /\ nops < MaxFileOps
    /\ nops' = nops + 1
    /\ \E i \in CartSlots : Cart__setitem__(i, UserVoice)

FileRead ==
    /\ nops < MaxFileOps
    /\ nops' = nops + 1
    /\ read_from_file

\* input lengths tried on the packer, as PayloadSizes on the unpacker
UnpackedSizes ==
    {0, NumVoices * UnpackedVoiceSize - SliceTail - 1,
     NumVoices * UnpackedVoiceSize - SliceTail,
     NumVoices * UnpackedVoiceSize - 1, NumVoices * UnpackedVoiceSize,
     NumVoices * UnpackedVoiceSize + 1, (NumVoices + 1) * UnpackedVoiceSize}

\* cart._convert_to_32_voice_dump_format(data), called by the caller
ConvertTo(data) ==
    /\ call' = [op |-> "_convert_to_32_voice_dump_format", length |-> Len(data)]
    /\ cart # <<>>
    /\ codec_in' = data
    /\ IF PackRaises(data)
       THEN result' = "IndexError" /\ codec_packed' = <<>>
       ELSE result' = "bytes" /\ codec_packed' = _convert_to_32_voice_dump_format(data)
    /\ sent' = <<>>
    /\ UNCHANGED << record_vars, cart_vars, midi_vars, codec_pc, codec_unpacked,
                    codec_repacked >>

\* cart._convert_from_32_voice_dump_format(data), called by the caller
ConvertFrom(data) ==
    /\ call' = [op |-> "_convert_from_32_voice_dump_format", length |-> Len(data)]
    /\ cart # <<>>
    /\ codec_packed' = data
    /\ IF UnpackRaises(data)
       THEN result' = "IndexError" /\ codec_unpacked' = <<>>
       ELSE result' = "bytes"
            /\ codec_unpacked' = _convert_from_32_voice_dump_format(data)
    /\ sent' = <<>>
    /\ UNCHANGED << record_vars, cart_vars, midi_vars, codec_pc, codec_in,
                    codec_repacked >>

FileConvert ==
    /\ nops < MaxFileOps
    /\ nops' = nops + 1
    /\ \/ \E n \in UnpackedSizes : ConvertTo(Repeat(1, n))
       \/ \E n \in PayloadSizes : ConvertFrom(Repeat(1, n))

FileNext == FileProvide \/ FileConstruct \/ FileRead \/ FileConvert \/ FileAssign

SpecFile == Init /\ [][FileNext]_vars

(***************************************************************************)
(* SpecCodec: the codec applied to payloads drawn from bounded sets        *)
(***************************************************************************)
\* voices of the payload that the drawn inputs modify
CodecVoices == {0, NumVoices - 1}

\* byte values every position of a drawn payload starts from
FillBytes == {0, 85, 170, 255}

\* a payload of 32 voices, every field at a fraction of its documented maximum
RangePayload(full) ==
    [n \in 1..(NumVoices * UnpackedVoiceSize) |->
        IF full THEN UnpackedMax((n - 1) % UnpackedVoiceSize) ELSE 0]

\* payload p with the byte at offset k of voice i set to b
WithByte(p, i, k, b) == [p EXCEPT ![i * UnpackedVoiceSize + k + 1] = b]

CodecInputs ==
    { WithByte(RangePayload(full), i, k, b) :
        full \in BOOLEAN, i \in CodecVoices, k \in 0..(UnpackedVoiceSize - 1),
        b \in {0} }
    \cup
    { WithByte(RangePayload(FALSE), i, k, UnpackedMax(k)) :
        i \in CodecVoices, k \in 0..(UnpackedVoiceSize - 1) }
    \cup
    { WithByte(Repeat(f, NumVoices * UnpackedVoiceSize), i, k, b) :
        f \in FillBytes, i \in CodecVoices, k \in {0, 11, 20, 143, 154},
        b \in {1, 255} }
    \cup
    { WithByte(WithByte(RangePayload(FALSE), i, 21 * j, 99), i, 21 * j + 20, 14) :
        i \in CodecVoices, j \in {0, 5} }

CodecInit ==
    /\ ProgramIdle
    /\ codec_pc = "in"
    /\ codec_in \in CodecInputs
    /\ codec_packed = <<>>
    /\ codec_unpacked = <<>>
    /\ codec_repacked = <<>>

CodecPack ==
    /\ codec_pc = "in"
    /\ codec_packed' = _convert_to_32_voice_dump_format(codec_in)
    /\ codec_pc' = "packed"
    /\ UNCHANGED << codec_in, codec_unpacked, codec_repacked, program_vars >>

CodecUnpack ==
    /\ codec_pc = "packed"
    /\ codec_unpacked' = _convert_from_32_voice_dump_format(codec_packed)
    /\ codec_pc' = "unpacked"
    /\ UNCHANGED << codec_in, codec_packed, codec_repacked, program_vars >>

CodecRepack ==
    /\ codec_pc = "unpacked"
    /\ codec_repacked' = _convert_to_32_voice_dump_format(codec_unpacked)
    /\ codec_pc' = "repacked"
    /\ UNCHANGED << codec_in, codec_packed, codec_unpacked, program_vars >>

CodecNext == CodecPack \/ CodecUnpack \/ CodecRepack

SpecCodec == CodecInit /\ [][CodecNext]_vars

\* every byte of the unpacked payload p lies in the documented range of its field
InDocumentedRange(p) ==
    \A n \in 1..Len(p) : p[n] >= 0 /\ p[n] <= UnpackedMax((n - 1) % UnpackedVoiceSize)

\* C1: for every unpacked cart payload whose bytes all lie in the documented
\* range of their fields, unpacking the packed payload gives the payload back.
C1_RoundTripInRange ==
    (codec_pc \in {"unpacked", "repacked"} /\ InDocumentedRange(codec_in))
        => codec_unpacked = codec_in

\* C5: for every packed payload that the packer produced (from any bytes
\* 0..255), packing the unpacked payload gives the packed payload back.
C5_PackUnpackPack ==
    codec_pc = "repacked" => codec_repacked = codec_packed

C5_Witness ==
    /\ codec_pc = "repacked"
    /\ codec_repacked = codec_packed
    /\ codec_unpacked # codec_in
    /\ \E n \in 1..Len(codec_in) : codec_in[n] = 255

(***************************************************************************)
(* The named setters (SpecFields)                                          *)
(***************************************************************************)
\* the documented maximum of the field the last setter call names
CallFieldMax ==
    CASE call.op = "Oscillator.set" -> At(OscillatorMax, IndexOf(OscillatorFields, call.name))
      [] call.op = "Voice.__setattr__" -> At(VoiceMax, IndexOf(VoiceFields, call.name))
      [] call.op = "Function.set" -> At(FunctionMax, IndexOf(FunctionFields, call.name))

\* the value now held by the field the last setter call names
CallFieldValue ==
    CASE call.op = "Oscillator.set" ->
             At(oscs[call.o].data, IndexOf(OscillatorFields, call.name))
      [] call.op = "Voice.__setattr__" ->
             At(voices[call.v].data, IndexOf(VoiceFields, call.name))
      [] call.op = "Function.set" ->
             At(function_data, IndexOf(FunctionFields, call.name))

\* C2: for every named field of Oscillator, Voice (Oscillator_Key_Sync
\* included) and Function, the named setter raises an error for min - 1 and
\* for max + 1, and for min and for max it succeeds and stores the value.
C2_SetterBounds ==
    call.op \in {"Oscillator.set", "Voice.__setattr__", "Function.set"} =>
        IF call.value < 0 \/ call.value > CallFieldMax
        THEN result # "None"
        ELSE result = "None" /\ CallFieldValue = call.value

\* C15: setting Voice_Name to an ASCII string s stores in the voice bytes
\* 19..28 the first 10 characters of s when s is longer than 10, and s followed
\* by spaces up to length 10 otherwise; no other voice byte changes.
C15_VoiceName ==
    [][(call'.op = "Voice.Voice_Name" /\ \A n \in 1..Len(call'.name) : call'.name[n] <= 127) =>
          /\ result' = "None"
          /\ Len(voices'[call'.v].data) = 29
          /\ \A n \in 1..10 :
                voices'[call'.v].data[19 + n] =
                    IF n <= Len(call'.name) THEN call'.name[n] ELSE 32
          /\ \A n \in 1..19 : voices'[call'.v].data[n] = voices[call'.v].data[n]]_vars

\* an 11-character name was set on a voice that holds a nonzero field
C15_Witness ==
    /\ call.op = "Voice.Voice_Name"
    /\ Len(call.name) = 11
    /\ result = "None"
    /\ SliceFrom(voices[call.v].data, NameOffset) = SubSeq(call.name, 1, 10)
    /\ \E n \in 1..NameOffset : voices[call.v].data[n] # 0

(***************************************************************************)
(* The cart, its file and its bulk dump (SpecCart)                         *)
(***************************************************************************)
\* the file save_to_file writes for a Cart of 32 freshly constructed Voices
DefaultCartFile ==
    CartFrame(_convert_to_32_voice_dump_format(Repeat(0, NumVoices * UnpackedVoiceSize)))

\* C3: a Cart of 32 default Voices, saved with save_to_file and loaded with
\* read_from_file, gives 32 Voices whose numeric fields, and whose oscillators'
\* fields, are all 0 and whose Voice_Name is 10 space characters.
C3_DefaultCartReload ==
    (call.op = "Cart.read_from_file" /\ result = "None" /\ file = DefaultCartFile) =>
        /\ Len(cart) = NumVoices
        /\ \A i \in 0..(NumVoices - 1) :
              /\ Slice(voices[At(cart, i)].data, 0, NameOffset) = Repeat(0, NameOffset)
              /\ \A k \in 1..6 :
                    get_oscillators(At(cart, i))[k].data = Repeat(0, OscillatorSize)
              /\ SliceFrom(voices[At(cart, i)].data, NameOffset)
                    = Repeat(SpaceChar, NameLength)

\* C4: Cart() with no arguments reads no file and returns a cart of 32
\* zero-initialised Voices numbered 0..31.
C4_CartNoArguments ==
    (call.op = "Cart.__init__" /\ call.filename = "default") =>
        /\ result = "Cart"
        /\ Len(cart) = NumVoices
        /\ \A i \in 0..(NumVoices - 1) :
              /\ voices[At(cart, i)].number = i
              /\ voices[At(cart, i)].data = Repeat(0, VoiceSize)
              /\ \A k \in 1..6 :
                    get_oscillators(At(cart, i))[k].data = Repeat(0, OscillatorSize)

\* the checksum byte of a 4104-byte frame m closes the sum of its 4096 payload bytes
FrameChecksumCloses(m) ==
    LET total == SumRange(m, 7, 4102)
        c == m[4103]
    IN /\ c = (128 - (total % 128)) % 128
       /\ (total + c) % 128 = 0

\* C6: in every cart state the checksum byte c that save_to_file writes, and
\* that Cart.send_to_dexed sends, after the 4096 packed bytes p is
\* (-sum(p)) & 0x7F, so that (sum(p) + c) mod 128 = 0.
C6_CartChecksum ==
    /\ (call.op = "Cart.save_to_file" /\ result = "None") => FrameChecksumCloses(file)
    /\ (call.op = "Cart.send_to_dexed" /\ sent # <<>>) => FrameChecksumCloses(sent[1])

\* a changed cart was sent: the sum of its payload is no multiple of 64
C6_Witness ==
    /\ call.op = "Cart.send_to_dexed"
    /\ result = "True"
    /\ Len(sent) = 1
    /\ Len(sent[1]) = 4104
    /\ SumRange(sent[1], 7, 4102) % 64 # 0
    /\ (SumRange(sent[1], 7, 4102) + sent[1][4103]) % 128 = 0

\* C8: in every cart state reached through named setters and raw indexed
\* writes, save_to_file writes exactly 4104 bytes: F0 43 00 09 20 00, the 4096
\* packed bytes of the 32 voices, one checksum byte, F7.
C8_CartFile ==
    (call.op = "Cart.save_to_file" /\ result = "None") =>
        /\ Len(file) = 4104
        /\ SubSeq(file, 1, 6) = << 240, 67, 0, 9, 32, 0 >>
        /\ \A i \in 0..(NumVoices - 1) :
              SubSeq(file, 7 + 128 * i, 6 + 128 * (i + 1))
                  = PackVoiceBlock(VoiceUnpacked(At(cart, i)))
        /\ file[4103] \in 0..127
        /\ file[4104] = 247

\* a cart in which a raw write stored 255 was saved
C8_Witness ==
    /\ call.op = "Cart.save_to_file"
    /\ result = "None"
    /\ Len(file) = 4104
    /\ \E i \in CartSlots : voices[At(cart, i)].data[1] = 255

\* C11: Cart.send_to_dexed(channel), 0 <= channel <= 15, sends one message
\* whose header is F0 43 s 09 20 00 with the channel in the low nibble of s
\* and 0 in its high nibble, then the 4096 packed bytes, the checksum and F7.
C11_CartSendChannel ==
    (call.op = "Cart.send_to_dexed" /\ call.channel \in 0..15 /\ sent # <<>>) =>
        /\ Len(sent) = 1
        /\ Len(sent[1]) = 4104
        /\ SubSeq(sent[1], 1, 6) = << 240, 67, call.channel % 16, 9, 32, 0 >>
        /\ sent[1][4104] = 247

(***************************************************************************)
(* The voice dump (Spec)                                                   *)
(***************************************************************************)
\* C7: in the message Voice.send_to_dexed builds, the checksum byte c after
\* the 155 payload bytes makes (sum of the payload + c) mod 128 = 0, in every
\* voice state.
C7_VoiceDumpChecksum ==
    (call.op = "Voice.send_to_dexed" /\ sent # <<>>) =>
        (SumRange(sent[1], 7, 161) + sent[1][162]) % 128 = 0

\* C10: Voice.send_to_dexed(channel), 0 <= channel <= 15, with an initialised
\* transport first sends one 163-byte message: F0 43 channel 00 01 1B, the 21
\* bytes of Oscillator1, ..., Oscillator6 in that order, the 29 voice bytes,
\* one checksum byte, F7.
C10_VoiceDump ==
    (/\ call.op = "Voice.send_to_dexed"
     /\ call.channel \in 0..15
     /\ midi_output_object # 0
     /\ call.reject # 1) =>
        /\ Len(sent) >= 1
        /\ Len(sent[1]) = 163
        /\ SubSeq(sent[1], 1, 6) = << 240, 67, call.channel, 0, 1, 27 >>
        /\ \A k \in 1..6 :
              SubSeq(sent[1], 7 + 21 * (k - 1), 6 + 21 * k)
                  = oscs[voices[call.v].osc[k]].data
        /\ SubSeq(sent[1], 133, 161) = voices[call.v].data
        /\ sent[1][162] \in 0..255
        /\ sent[1][163] = 247

\* a voice whose Oscillator1 and Oscillator6 differ was sent on channel 15
C10_Witness ==
    /\ call.op = "Voice.send_to_dexed"
    /\ call.channel = 15
    /\ midi_output_object # 0
    /\ Len(sent) = 2
    /\ Len(sent[1]) = 163
    /\ sent[1][7] = 1
    /\ oscs[voices[call.v].osc[1]].data # oscs[voices[call.v].osc[6]].data

\* the active flags of the Oscillators in the six slots of Voice v
HeldFlags(v) == [k \in 1..6 |-> oscs[voices[v].osc[k]].active]

\* the sum over the slots k of 2^(6 - k) for every active Oscillator
RECURSIVE FlagSum(_, _)
FlagSum(flags, k) ==
    IF k > 6 THEN 0
    ELSE (IF flags[k] THEN Pow2(6 - k) ELSE 0) + FlagSum(flags, k + 1)

\* ActiveOscillators is the weighted sum of the flags, and so is the value
\* byte of the message that follows the voice dump
MaskIsFlagSum ==
    /\ ActiveOscillators(UserVoice) = FlagSum(HeldFlags(UserVoice), 1)
    /\ ActiveOscillators(UserVoice) \in 0..63
    /\ (call.op = "Voice.send_to_dexed" /\ Len(sent) = 2) =>
          sent[2][6] = FlagSum(HeldFlags(call.v), 1)

\* C14: Voice.ActiveOscillators always equals the sum over the slots k of
\* 2^(6 - k) for every active Oscillator held (Oscillator1 is bit 5,
\* Oscillator6 bit 0), lies in 0..63, and changes exactly when the active
\* flag of a held Oscillator changes.
C14_ActiveOscillators ==
    /\ []MaskIsFlagSum
    /\ [][(ActiveOscillators(UserVoice)' # ActiveOscillators(UserVoice))
            <=> (HeldFlags(UserVoice)' # HeldFlags(UserVoice))]_vars

\* a voice whose Oscillator6 alone is inactive was sent: the mask is 62
C14_Witness ==
    /\ call.op = "Voice.send_to_dexed"
    /\ Len(sent) = 2
    /\ HeldFlags(call.v) = << TRUE, TRUE, TRUE, TRUE, TRUE, FALSE >>
    /\ sent[2][6] = 62

(***************************************************************************)
(* Parameter changes (SpecParameter)                                       *)
(***************************************************************************)
\* the value bytes of the last send_dexed_parameter call
CallBytes ==
    IF call.is_str
    THEN SubSeq(call.value, 1, Min(10, Len(call.value)))
    ELSE << call.value >>

\* C9: send_dexed_parameter(a, value, function_change=f, channel=c) with
\* 0 <= a <= 155, 0 <= c <= 15 and an initialised, accepting transport sends
\* one message per value byte b_k and no other, in order:
\* F0 43 (10 | c) ((08 if f) | ((a + k) >> 7 & 3)) ((a + k) & 7F) (b_k & 7F) F7.
C9_ParameterMessages ==
    (/\ call.op = "send_dexed_parameter"
     /\ call.parameter \in 0..155
     /\ call.channel \in 0..15
     /\ midi_output_object # 0
     /\ call.reject = 0) =>
        /\ Len(sent) = Len(CallBytes)
        /\ \A k \in 0..(Len(CallBytes) - 1) :
              At(sent, k) =
                  << 240, 67, 16 + call.channel,
                     (IF call.function_change # 0 THEN 8 ELSE 0)
                         + (((call.parameter + k) \div 128) % 4),
                     (call.parameter + k) % 128,
                     At(CallBytes, k) % 128,
                     247 >>

\* an 11-character string was sent from address 127: ten messages, the
\* addresses crossing 128
C9_Witness ==
    /\ call.op = "send_dexed_parameter"
    /\ call.parameter = 127
    /\ call.is_str
    /\ Len(call.value) = 11
    /\ midi_output_object # 0
    /\ call.reject = 0
    /\ result = "True"
    /\ Len(sent) = 10
    /\ sent[10][4] = 1

(***************************************************************************)
(* Address lookup (SpecAddress)                                            *)
(***************************************************************************)
\* the offset in _voice_data, or past it, of the voice parameter of the call
CallVoiceOffset ==
    IF call.is_str
    THEN CASE call.parameter = "Voice_Name" -> 19
           [] call.parameter = "ActiveOscillators" -> 29
           [] OTHER -> IndexOf(VoiceFields, call.parameter)
    ELSE IF call.parameter = 20 THEN 29 ELSE call.parameter

\* the last call was a lookup of a field, by its name or by its index, that
\* returned an address
FieldLookup(op, size) ==
    /\ call.op = op
    /\ result = "int"
    /\ (~call.is_str => call.parameter \in 0..(size - 1))

\* C12: midi_addr_of returns local offset + record base: o + 21 * (6 - n) for
\* the field at offset o of an Oscillator numbered n, o + 126 for a Voice field,
\* o + 64 for a Function field; Oscillator 1 Oscillator_Mode is 122, Voice
\* ActiveOscillators 155, Function Aftertouch_Assign 77, oscillator 6 starts at
\* 0 and oscillator 1 at 105.
C12_AddressOf ==
    /\ FieldLookup("Oscillator.midi_addr_of", 21) =>
          LET o == IF call.is_str THEN IndexOf(OscillatorFields, call.parameter)
                   ELSE call.parameter
              n == oscs[call.o].number
          IN /\ call.returned = o + 21 * (6 - n)
             /\ (n = 6 /\ o = 0) => call.returned = 0
             /\ (n = 1 /\ o = 0) => call.returned = 105
             /\ (n = 1 /\ o = 17) => call.returned = 122
    /\ FieldLookup("Voice.midi_addr_of", 21) =>
          /\ call.returned = CallVoiceOffset + 126
          /\ (call.is_str /\ call.parameter = "ActiveOscillators") => call.returned = 155
    /\ FieldLookup("Function.midi_addr_of", 14) =>
          /\ call.returned = IndexOf(FunctionFields, call.parameter) + 64
          /\ call.parameter = "Aftertouch_Assign" => call.returned = 77

\* Oscillator_Mode of an Oscillator numbered 1 was looked up: 122
C12_Witness ==
    /\ call.op = "Oscillator.midi_addr_of"
    /\ call.is_str
    /\ call.parameter = "Oscillator_Mode"
    /\ oscs[call.o].number = 1
    /\ result = "int"
    /\ call.returned = 122

\* the addresses of the fields of the Oscillators in the six slots of Voice v
SlotAddresses(v) ==
    { OscillatorAddress(voices[v].osc[k], OscillatorFields[f], TRUE).returned :
        k \in 1..6, f \in 1..Len(OscillatorFields) }

VoiceAddresses ==
    { VoiceAddress(VoiceParameters[f], TRUE).returned : f \in 1..Len(VoiceParameters) }

FunctionAddresses ==
    { FunctionAddress(FunctionFields[f], TRUE).returned : f \in 1..Len(FunctionFields) }

\* C13: for a Voice and the Oscillators in its six slots, midi_addr_of maps
\* the 6 x 21 oscillator fields and the 21 voice fields to pairwise distinct
\* addresses within 0..155, and Function.midi_addr_of maps the 14 function
\* fields to pairwise distinct addresses within 64..77.
C13_AddressesDistinct ==
    /\ Cardinality(SlotAddresses(UserVoice) \cup VoiceAddresses) = 6 * 21 + 21
    /\ SlotAddresses(UserVoice) \cup VoiceAddresses \subseteq 0..155
    /\ Cardinality(FunctionAddresses) = 14
    /\ FunctionAddresses \subseteq 64..77

(***************************************************************************)
(* Send failures (Spec, SpecParameter, SpecCart)                           *)
(***************************************************************************)
\* the last call was a send operation that returned
SendReturned ==
    /\ call.op \in {"send_dexed_parameter", "Voice.send_to_dexed", "Cart.send_to_dexed"}
    /\ result \in {"True", "False"}

\* the writes the last send operation attempts on a transport that takes them
WritesAttempted ==
    CASE call.op = "send_dexed_parameter" -> Len(CallBytes)
      [] call.op = "Voice.send_to_dexed" -> 2
      [] call.op = "Cart.send_to_dexed" -> 1

\* C16: each send operation returns False whenever the transport is
\* uninitialised or rejects a write the operation attempts, the
\* ActiveOscillators write that follows the voice dump included; when it is
\* uninitialised no bytes are handed to a transport.
C16_SendFailures ==
    SendReturned =>
        /\ midi_output_object = 0 => (result = "False" /\ sent = <<>>)
        /\ (midi_output_object # 0 /\ call.reject \in 1..WritesAttempted) =>
              result = "False"

(***************************************************************************)
(* Transport handles (SpecParameter)                                       *)
(***************************************************************************)
\* close_midi_connection with no transport leaves ports, records and cart alone
CloseUninitialisedIsNoOp ==
    [][(call'.op = "close_midi_connection" /\ midi_output_object = 0) =>
          UNCHANGED << midi_vars, record_vars, cart_vars >>]_vars

\* C17: after any sequence of midi_connection and close_midi_connection calls
\* at most one MidiOut has an open port, and close_midi_connection on an
\* uninitialised transport changes nothing.
C17_OneOpenPort ==
    /\ [](Cardinality(open_ports) <= 1)
    /\ CloseUninitialisedIsNoOp

(***************************************************************************)
(* Raw indexed writes (SpecRaw)                                            *)
(***************************************************************************)
\* the bytes, among the records os, vs and fd, of the record the raw write c
\* was made on
RawRecord(c, os, vs, fd) ==
    CASE c.op = "Oscillator.__setitem__" -> os[c.o].data
      [] c.op = "Voice.__setitem__" -> vs[c.v].data
      [] c.op = "Function.__setitem__" -> fd

\* abs(v) & 0xFF by arithmetic
LowByteOfMagnitude(v) == (IF v < 0 THEN 0 - v ELSE v) % 256

\* a raw write has stored its byte at its index and left every other byte
RawWriteStored(c, before, after) ==
    /\ Len(after) = Len(before)
    /\ \A n \in 1..Len(before) :
          after[n] = IF n = c.index + 1 THEN LowByteOfMagnitude(c.value)
                     ELSE before[n]

\* C18: on an Oscillator, a Voice and a Function a raw write r[i] = v with i
\* inside the record stores abs(v) & 0xFF at index i, whatever the range of
\* the field, and changes no other byte of the record.
C18_RawWrite ==
    [][(/\ call'.op \in {"Oscillator.__setitem__", "Voice.__setitem__",
                         "Function.__setitem__"}
        /\ call'.index \in 0..(Len(RawRecord(call', oscs, voices, function_data)) - 1)) =>
          /\ result' = "None"
          /\ RawWriteStored(call', RawRecord(call', oscs, voices, function_data),
                            RawRecord(call', oscs', voices', function_data'))]_vars

\* osc[20] = -300 has stored 44 in Detune, whose range ends at 14
C18_Witness ==
    /\ call.op = "Oscillator.__setitem__"
    /\ call.index = 20
    /\ call.value = -300
    /\ result = "None"
    /\ oscs[call.o].data[21] = 44

(***************************************************************************)
(* The packed layout (SpecCodec)                                           *)
(***************************************************************************)
\* byte k of voice i of the unpacked input, byte m of voice i of the packed output
UnpackedByte(i, k) == codec_in[i * 155 + k + 1]
PackedByte(i, m) == codec_packed[i * 128 + m + 1]

\* byte m (0..16) of the packed block of the oscillator whose 21 bytes start
\* at offset at of voice i
LayoutOscillatorByte(i, at, m) ==
    CASE m < 11 -> UnpackedByte(i, at + m)
      [] m = 11 -> (UnpackedByte(i, at + 11) % 4) + 4 * (UnpackedByte(i, at + 12) % 4)
      [] m = 12 -> (UnpackedByte(i, at + 13) % 8) + 8 * (UnpackedByte(i, at + 20) % 16)
      [] m = 13 -> (UnpackedByte(i, at + 14) % 4) + 4 * (UnpackedByte(i, at + 15) % 8)
      [] m = 14 -> UnpackedByte(i, at + 16)
      [] m = 15 -> (UnpackedByte(i, at + 17) % 2) + 2 * (UnpackedByte(i, at + 18) % 32)
      [] m = 16 -> UnpackedByte(i, at + 19)

\* byte m (0..25) of the packed tail of voice i, whose 29 voice bytes start at
\* offset 126
LayoutVoiceByte(i, m) ==
    CASE m < 8 -> UnpackedByte(i, 126 + m)
      [] m = 8 -> UnpackedByte(i, 126 + 8) % 32
      [] m = 9 -> (UnpackedByte(i, 126 + 9) % 8) + 8 * (UnpackedByte(i, 126 + 10) % 2)
      [] m \in 10..13 -> UnpackedByte(i, 126 + m + 1)
      [] m = 14 -> (UnpackedByte(i, 126 + 15) % 2)
                     + 2 * (UnpackedByte(i, 126 + 16) % 16)
                     + 32 * (UnpackedByte(i, 126 + 17) % 4)
      [] m \in 15..25 -> UnpackedByte(i, 126 + m + 3)

\* C19: the packer maps each 155-byte block to 128 bytes: six 17-byte
\* oscillator blocks (11 bytes copied, then the packed pairs of the stated
\* masks and shifts, with Detune in bits 3..6 of byte 12) and a 26-byte tail
\* of the voice bytes.
C19_PackLayout ==
    codec_pc # "in" =>
        /\ Len(codec_packed) = 32 * 128
        /\ \A i \in 0..31 :
              /\ \A j \in 0..5 : \A m \in 0..16 :
                    PackedByte(i, 17 * j + m) = LayoutOscillatorByte(i, 21 * j, m)
              /\ \A m \in 0..25 : PackedByte(i, 102 + m) = LayoutVoiceByte(i, m)

\* an oscillator with only EG_RATE_1 = 99 and Detune = 14 has packed to
\* byte 0 = 99, byte 12 = 0x70 and zeros
C19_Witness ==
    /\ codec_pc = "packed"
    /\ \E i \in CodecVoices : \E j \in {0, 5} :
          /\ \A n \in 1..Len(codec_in) :
                codec_in[n] = IF n = i * 155 + 21 * j + 1 THEN 99
                              ELSE IF n = i * 155 + 21 * j + 21 THEN 14 ELSE 0
          /\ \A n \in 1..Len(codec_packed) :
                codec_packed[n] = IF n = i * 128 + 17 * j + 1 THEN 99
                                  ELSE IF n = i * 128 + 17 * j + 13 THEN 112 ELSE 0

(***************************************************************************)
(* The order of the oscillators in the cart payload (SpecSlots)            *)
(***************************************************************************)
\* the j-th 17-byte block of voice i in a cart frame
FrameBlock(frame, i, j) ==
    SubSeq(frame, 6 + 128 * i + 17 * j + 1, 6 + 128 * i + 17 * j + 17)

\* the 21 bytes of the oscillator in slot k of the cart's voice i
SlotData(i, k) == oscs[voices[cart[i + 1]].osc[k]].data

\* block j of every voice of the frame carries the oscillator in slot 6 - j
FrameInSlotOrder(frame) ==
    \A i \in 0..31 : \A j \in 0..5 :
        FrameBlock(frame, i, j) = PackOscillator(SlotData(i, 6 - j))

\* read_from_file has put block j of every voice of the file into slot 6 - j
ReadInSlotOrder ==
    \A i \in 0..31 : \A j \in 0..5 :
        SlotData(i, 6 - j) = UnpackOscillator(FrameBlock(file, i, j))

\* a read that follows a save returns the range-valid fields to their slots
SaveThenRead ==
    (/\ call.op = "Cart.save_to_file" /\ result = "None"
     /\ call'.op = "Cart.read_from_file" /\ result' = "None") =>
        \A i \in 0..31 : \A k \in 1..6 : \A f \in 1..21 :
            SlotData(i, k)[f] <= OscillatorMax[f] =>
                SlotData(i, k)'[f] = SlotData(i, k)[f]

\* C20: in the payload that save_to_file writes and Cart.send_to_dexed sends
\* the j-th 17-byte block of every voice carries the oscillator in slot
\* 6 - j, read_from_file puts the j-th block back into slot 6 - j, and a save
\* followed by a read returns every oscillator's range-valid fields to the
\* same slot.
C20_SlotOrder ==
    /\ []((call.op = "Cart.save_to_file" /\ result = "None") => FrameInSlotOrder(file))
    /\ []((call.op = "Cart.send_to_dexed" /\ sent # <<>>) => FrameInSlotOrder(sent[1]))
    /\ []((call.op = "Cart.read_from_file" /\ result = "None") => ReadInSlotOrder)
    /\ [][SaveThenRead]_vars

\* EG_RATE_1 = 99 of Oscillator1 of the last voice went through the file's
\* last oscillator block and is back in slot 1, not in slot 6
C20_Witness ==
    /\ call.op = "Cart.read_from_file"
    /\ result = "None"
    /\ FrameBlock(file, LastSlot, 5)[1] = 99
    /\ FrameBlock(file, LastSlot, 0)[1] = 0
    /\ SlotData(LastSlot, 1)[1] = 99
    /\ SlotData(LastSlot, 6)[1] = 0

(***************************************************************************)
(* The header of a cart file (SpecFile)                                    *)
(***************************************************************************)
\* the last call read the cart file, which exists
FileWasRead(c) ==
    \/ c.op = "Cart.read_from_file"
    \/ c.op = "Cart.__init__" /\ c.filename = "path"

\* the first six bytes are F0 43 0s 09 20 00 for a channel s of 0..15
HeaderOfAnyChannel(f) ==
    /\ Len(f) >= 6
    /\ \E s \in 0..15 : SubSeq(f, 1, 6) = << 240, 67, s, 9, 32, 0 >>

\* C21: read_from_file accepts a file (of a full payload) if and only if its
\* first six bytes are F0 43 s 09 20 00 with the high nibble of s 0 and its
\* low nibble any channel; every other header makes the read raise and abort.
C21_HeaderAccepted ==
    [][(/\ FileWasRead(call')
        /\ file_exists
        /\ Len(file) = 6 + 32 * 128 + 2) =>
          /\ (result' \in {"None", "Cart"}) <=> HeaderOfAnyChannel(file)
          /\ ~HeaderOfAnyChannel(file) =>
                (result' = "ValueError" /\ UNCHANGED << record_vars, cart >>)]_vars

(***************************************************************************)
(* Sizes (SpecFile)                                                        *)
(***************************************************************************)
\* the bytes of the file f between its six header bytes and its last two
PayloadLength(f) == IF Len(f) < 8 THEN 0 ELSE Len(f) - 8

\* C22: a size mismatch is always an error: read_from_file on a file whose
\* payload is not 4096 bytes, the unpacker on input that is not 32 * 128
\* bytes and the packer on input that is not 32 * 155 bytes raise an error
\* and return no result.
C22_SizeMismatch ==
    /\ ((/\ FileWasRead(call) /\ file_exists
         /\ Len(file) >= 6 /\ SubSeq(file, 1, 6) = << 240, 67, 0, 9, 32, 0 >>
         /\ PayloadLength(file) # 4096) => result \notin {"None", "Cart"})
    /\ ((call.op = "_convert_from_32_voice_dump_format" /\ call.length # 32 * 128) =>
           result # "bytes")
    /\ ((call.op = "_convert_to_32_voice_dump_format" /\ call.length # 32 * 155) =>
           result # "bytes")

(***************************************************************************)
(* Bounds of the raw indexed view (SpecRaw)                                *)
(***************************************************************************)
\* the last valid index of the record a raw read or write c is made on
LastIndex(c) ==
    CASE c.op \in {"Oscillator.__getitem__", "Oscillator.__setitem__"} -> 20
      [] c.op \in {"Voice.__getitem__", "Voice.__setitem__"} -> 28
      [] c.op \in {"Function.__getitem__", "Function.__setitem__"} -> 13

RawOps ==
    {"Oscillator.__getitem__", "Oscillator.__setitem__", "Voice.__getitem__",
     "Voice.__setitem__", "Function.__getitem__", "Function.__setitem__"}

\* C23: on an Oscillator, a Voice and a Function a raw read r[i] and a raw
\* write r[i] = v with i outside the valid range, negative i included, raise
\* an error, and the rejected write leaves every byte of the record unchanged.
C23_RawBounds ==
    [][(/\ call'.op \in RawOps
        /\ (call'.index < 0 \/ call'.index > LastIndex(call'))) =>
          /\ result' = "IndexError"
          /\ UNCHANGED record_vars]_vars

(***************************************************************************)
(* Numbers of the oscillators a voice holds (SpecAddress)                  *)
(***************************************************************************)
\* C24: in every Voice the oscillator held in slot k has number k, for every
\* k in 1..6, also when one Oscillator object has been assigned to more than
\* one slot.
C24_SlotNumbers ==
    \A v \in DOMAIN voices : \A k \in 1..6 : oscs[voices[v].osc[k]].number = k

(***************************************************************************)
(* Numbers of the voices a cart holds (SpecFile)                           *)
(***************************************************************************)
\* C25: in every Cart, however constructed, assigned to and read, the cart
\* holds exactly 32 Voices and the Voice in slot i has number i, for every i
\* in 0..31, also when one Voice object has been assigned to more than one
\* slot.
C25_CartNumbers ==
    cart # <<>> =>
        /\ Len(cart) = 32
        /\ \A i \in 0..31 : voices[cart[i + 1]].number = i

(***************************************************************************)
(* The addresses of the parameter-change messages (SpecParameter)          *)
(***************************************************************************)
\* ((byte 3 & 0x03) << 7) | byte 4 of the message m
MessageAddress(m) == (At(m, 3) % 4) * 128 + At(m, 4)

\* C26: every parameter-change message that send_dexed_parameter emits
\* encodes an address within 0..155, also for a string value that produces
\* several messages; a call whose starting address is outside 0..155 or whose
\* channel is outside 0..15 raises an error and sends nothing.
C26_AddressRange ==
    call.op = "send_dexed_parameter" =>
        /\ \A n \in 1..Len(sent) : MessageAddress(sent[n]) \in 0..155
        /\ (call.parameter \notin 0..155 \/ call.channel \notin 0..15) =>
              (result \in {"ValueError", "UnicodeEncodeError"} /\ sent = <<>>)

(***************************************************************************)
(* Lookups of what is not a field (SpecAddress)                            *)
(***************************************************************************)
\* the field names of the record the lookup c is made on
LookupTable(c) ==
    CASE c.op = "Oscillator.midi_addr_of" -> OscillatorFields
      [] c.op = "Voice.midi_addr_of" -> VoiceParameters
      [] c.op = "Function.midi_addr_of" -> FunctionFields

\* the lookup c names no field: a name absent from the table, or an index
\* that is negative or not smaller than the number of fields
NotAField(c) ==
    IF c.is_str
    THEN \A n \in 1..Len(LookupTable(c)) : LookupTable(c)[n] # c.parameter
    ELSE c.parameter < 0 \/ c.parameter >= Len(LookupTable(c))

\* C27: Oscillator.midi_addr_of and Voice.midi_addr_of raise an error for
\* every name absent from the field table and every integer index that is
\* negative or not smaller than the number of fields, Function.midi_addr_of
\* for every unknown name; no such call returns an address.
C27_LookupFails ==
    (/\ call.op \in {"Oscillator.midi_addr_of", "Voice.midi_addr_of",
                     "Function.midi_addr_of"}
     /\ (call.op = "Function.midi_addr_of" => call.is_str)
     /\ NotAField(call)) =>
        result \in {"KeyError", "IndexError", "ValueError"}

(***************************************************************************)
(* The message that follows the voice dump (Spec)                          *)
(***************************************************************************)
\* C28: after the dump Voice.send_to_dexed(channel=c) sends exactly one more
\* message, the voice parameter change F0 43 (10 | c) 01 1B m F7 that carries
\* the ActiveOscillators mask m to address 155 on the same channel c, for
\* every c in 0..15; the dump is sent before it.
C28_FollowUp ==
    (/\ call.op = "Voice.send_to_dexed"
     /\ call.channel \in 0..15
     /\ midi_output_object # 0
     /\ call.reject = 0) =>
        /\ Len(sent) = 2
        /\ Len(sent[1]) = 163
        /\ sent[2] = << 240, 67, 16 + call.channel, 1, 27,
                        ActiveOscillators(call.v), 247 >>

(***************************************************************************)
(* The active flags and the cart's output (SpecSlots)                      *)
(***************************************************************************)
\* the unpacked bytes of the cart read from the data of its records alone:
\* byte r of voice i is byte r % 21 of the oscillator in slot 6 - r \div 21,
\* or byte r - 126 of the voice
BytesOfRecords ==
    [n \in 1..(32 * 155) |->
        LET i == (n - 1) \div 155
            r == (n - 1) % 155
        IN IF r < 126 THEN SlotData(i, 6 - (r \div 21))[(r % 21) + 1]
           ELSE voices[cart[i + 1]].data[r - 126 + 1]]

\* the frame of those bytes: a function of the records' bytes, not of a flag
FrameOfRecords == CartFrame(_convert_to_32_voice_dump_format(BytesOfRecords))

\* C29: the bytes that Cart.save_to_file writes and Cart.send_to_dexed sends
\* do not depend on any oscillator's active flag: they are a function of the
\* oscillator and voice bytes alone, so carts that agree on those bytes and
\* differ in active flags give the same output.
C29_FlagsNotInOutput ==
    /\ (call.op = "Cart.save_to_file" /\ result = "None") => file = FrameOfRecords
    /\ (call.op = "Cart.send_to_dexed" /\ sent # <<>>) => sent[1] = FrameOfRecords

\* a cart whose last voice holds an inactive Oscillator1 with EG_RATE_1 = 99
\* was saved, and the file carries the 99
C29_Witness ==
    /\ call.op = "Cart.save_to_file"
    /\ result = "None"
    /\ ~oscs[voices[cart[LastSlot + 1]].osc[1]].active
    /\ oscs[voices[cart[LastSlot + 1]].osc[1]].data[1] = 99
    /\ FrameBlock(file, LastSlot, 5)[1] = 99

(***************************************************************************)
(* The voice dump and the parameter addresses (Spec)                       *)
(***************************************************************************)
\* byte a of the 155-byte payload of the dump message m
PayloadByte(m, a) == m[6 + a + 1]

\* the dump carries, at the address of every field of the oscillator in slot
\* k of Voice v, the stored value of that field
OscillatorFieldsAtAddress(m, v) ==
    \A k \in 1..6 : \A f \in 1..Len(OscillatorFields) :
        PayloadByte(m, OscillatorAddress(voices[v].osc[k], OscillatorFields[f], TRUE).returned)
            = oscs[voices[v].osc[k]].data[f]

\* the dump carries, at the address of every voice field below 155 (the
\* scalar fields and Voice_Name, whose ten bytes follow its address), the
\* stored value
VoiceFieldsAtAddress(m, v) ==
    /\ \A f \in 1..Len(VoiceFields) :
          PayloadByte(m, VoiceAddress(VoiceFields[f], TRUE).returned) = voices[v].data[f]
    /\ \A n \in 0..9 :
          PayloadByte(m, VoiceAddress("Voice_Name", TRUE).returned + n)
              = voices[v].data[19 + n + 1]

\* C30: for every oscillator field and every voice field f with address
\* a = midi_addr_of(f) < 155, the byte at offset a of the 155-byte payload
\* that Voice.send_to_dexed sends equals the stored value of f.
C30_DumpAtAddresses ==
    (call.op = "Voice.send_to_dexed" /\ sent # <<>>) =>
        /\ OscillatorFieldsAtAddress(sent[1], call.v)
        /\ VoiceFieldsAtAddress(sent[1], call.v)
====
